---- MODULE Spec2Model ----
(***************************************************************************)
(* OmniWire-MCP: the per-source circuit breaker, the Sentinel registry     *)
(* that owns one breaker and one statistics record per source, and the     *)
(* request handlers (fetch-news, news://all, news://source/{id},           *)
(* reset-source) that gate, start and report fetches.                      *)
(*                                                                         *)
(* Time is the wall clock in milliseconds (Date.now()).  It advances in    *)
(* steps of TickMs.  A fetch is an asynchronous task: it is started by a   *)
(* handler, stays in flight while the clock and other handlers run, and    *)
(* its completion records the outcome in the registry.                     *)
(***************************************************************************)
EXTENDS Integers, Sequences, FiniteSets, Bags, TLC

(***************************************************************************)
(* Program constants: the breaker configuration the server is built with   *)
(* (DEFAULT_CONFIG.sentinel) and the size of the response-time ring.       *)
(***************************************************************************)
failureThreshold == 3
recoveryTimeoutMs == 60000
successThreshold == 2
MaxResponseTimes == 10

(***************************************************************************)
(* Bounds of the model.                                                    *)
(***************************************************************************)
TickMs == 30000
MaxTicks == 3
MaxRequests == 5
MaxInflight == 2
MaxFetchTicks == 1
MaxSentinelRequests == 6
MaxRingRequests == 12
MaxRingFailures == 1
MaxFanoutRequests == 3
MaxItems == 2
FetchTickMs == 5000
MaxClockTicks == 3

\* null for Date | null fields, undefined for an absent number
Null == -1
\* null for string | null fields
NullString == "null"

\* ids the configuration collaborator can name; "zz" is never configured
ConfigIds == {"a", "b"}
UnknownId == "zz"
AllIds == ConfigIds \cup {UnknownId}

\* human-readable failure reasons produced by fetchAndParse
Errors == {"HTTP 500: Internal Server Error"}

CLOSED == "CLOSED"
OPEN == "OPEN"
HALF_OPEN == "HALF_OPEN"
CircuitState == {CLOSED, OPEN, HALF_OPEN}

HEALTHY == "healthy"
DEGRADED == "degraded"
UNHEALTHY == "unhealthy"

VARIABLES
    now,              \* Date.now()
    started,          \* OmniWireServer.start() has run
    remote,           \* ConfigLoader.configUrl is a URL (RSS_FEEDS)
    config,           \* ConfigLoader.config.sources: id -> enabled
    circuitBreakers,  \* SentinelService.circuitBreakers: id -> breaker
    sourceStats,      \* SentinelService.sourceStats: id -> statistics
    sourceConfigs,    \* SentinelService.sourceConfigs: id -> source record
    inflight,         \* bag of fetchAndParse tasks that have not returned
    emitted,          \* events emitted during the last step, in order
    lastCall,         \* history: the registry calls of the last step
    failRun,          \* history: failures recorded in a row from a fresh CLOSED
    openedAt,         \* history: time the breaker last left CLOSED/HALF_OPEN for OPEN
    halfOpenSuccesses, \* history: successes recorded in a row while HALF_OPEN
    failStreak,       \* history: failures recorded since the last success or reset
    sampled,          \* history: latencies passed to recordSuccess since registration
    fetchCall,        \* one call of UniversalParser.fetchAndParse: its position,
                      \* timer and return value
    parseCall,        \* one call of UniversalParser.parse: its arguments and
                      \* return value
    toolCall,         \* one call of the fetch-news tool after its fetches have
                      \* settled: the items, the arguments and the response
    loader            \* the ConfigLoader by itself: RSS_FEEDS, config,
                      \* lastConfigHash and the outcome of its last call

vars == <<now, started, remote, config, circuitBreakers, sourceStats, sourceConfigs,
          inflight, emitted, lastCall, failRun, openedAt, halfOpenSuccesses,
          failStreak, sampled, fetchCall, parseCall, toolCall, loader>>

\* no call of fetchAndParse has been made
NoFetchCall == [pc |-> "idle"]

\* no call of parse has been made
NoParseCall == [pc |-> "idle"]

\* no call of fetch-news is followed
NoToolCall == [pc |-> "idle"]

\* the ConfigLoader is not followed by itself
NoLoader == [pc |-> "idle"]

----------------------------------------------------------------------------
(***************************************************************************)
(* CircuitBreaker.  Every method is a function of the breaker record b and *)
(* the clock t; a method that mutates returns the new record.  The Date    *)
(* fields that are written and reported but never read by any decision     *)
(* (lastFailureTime, lastStateChange; lastSuccess, lastFailure in the      *)
(* statistics) are not part of the state.                                  *)
(***************************************************************************)

NewCircuitBreaker ==
    [state |-> CLOSED, failureCount |-> 0, successCount |-> 0,
     nextAttemptTime |-> Null]

\* variant: the recovery check forgets the clock
shouldAttemptRecovery_noClock(b, t) ==
    IF b.state # OPEN \/ b.nextAttemptTime = Null
    THEN FALSE
    ELSE TRUE

\* variant: the recovery time never comes
shouldAttemptRecovery_never(b, t) ==
    FALSE

shouldAttemptRecovery(b, t) ==
    IF b.state # OPEN \/ b.nextAttemptTime = Null
    THEN FALSE
    ELSE t >= b.nextAttemptTime

\* variant: only a transition to CLOSED clears the next attempt time
transitionTo_clearsOnClose(b, newState, t) ==
    [b EXCEPT !.state = newState,
              !.nextAttemptTime = IF newState = OPEN THEN t + recoveryTimeoutMs
                                  ELSE IF newState = CLOSED THEN Null ELSE @,
              !.failureCount = IF newState = CLOSED THEN 0 ELSE @,
              !.successCount = IF newState = CLOSED THEN 0 ELSE @]

transitionTo(b, newState, t) ==
    [b EXCEPT !.state = newState,
              !.nextAttemptTime = IF newState = OPEN THEN t + recoveryTimeoutMs ELSE Null,
              !.failureCount = IF newState = CLOSED THEN 0 ELSE @,
              !.successCount = IF newState = CLOSED THEN 0 ELSE @]

\* the breaker after getState(); the value returned is its state field
getState(b, t) ==
    IF b.state = OPEN /\ shouldAttemptRecovery(b, t)
    THEN transitionTo(b, HALF_OPEN, t)
    ELSE b

\* variant: a HALF_OPEN breaker turns callers away
canExecute_rejectsHalfOpen(b, t) ==
    LET b1 == getState(b, t)
        currentState == b1.state
    IN  IF currentState = CLOSED THEN [ret |-> TRUE, b |-> b1]
        ELSE IF currentState = HALF_OPEN THEN [ret |-> FALSE, b |-> b1]
        ELSE IF shouldAttemptRecovery(b1, t)
             THEN [ret |-> TRUE, b |-> transitionTo(b1, HALF_OPEN, t)]
             ELSE [ret |-> FALSE, b |-> b1]

\* [ret |-> the boolean returned, b |-> the breaker afterwards]
canExecute(b, t) ==
    LET b1 == getState(b, t)
        currentState == b1.state
    IN  IF currentState = CLOSED THEN [ret |-> TRUE, b |-> b1]
        ELSE IF currentState = HALF_OPEN THEN [ret |-> TRUE, b |-> b1]
        ELSE IF shouldAttemptRecovery(b1, t)
             THEN [ret |-> TRUE, b |-> transitionTo(b1, HALF_OPEN, t)]
             ELSE [ret |-> FALSE, b |-> b1]

\* variant: closing needs more than successThreshold successes
CircuitBreaker_recordSuccess_strict(b, t) ==
    LET b1 == [b EXCEPT !.successCount = @ + 1, !.failureCount = 0]
    IN  IF b1.state = HALF_OPEN
        THEN (IF b1.successCount > successThreshold
              THEN transitionTo(b1, CLOSED, t)
              ELSE b1)
        ELSE b1

\* variant: enough successes close the circuit from OPEN as well
CircuitBreaker_recordSuccess_anyState(b, t) ==
    LET b1 == [b EXCEPT !.successCount = @ + 1, !.failureCount = 0]
    IN  IF b1.state # CLOSED
        THEN (IF b1.successCount >= successThreshold
              THEN transitionTo(b1, CLOSED, t)
              ELSE b1)
        ELSE b1

CircuitBreaker_recordSuccess(b, t) ==
    LET b1 == [b EXCEPT !.successCount = @ + 1, !.failureCount = 0]
    IN  IF b1.state = HALF_OPEN
        THEN (IF b1.successCount >= successThreshold
              THEN transitionTo(b1, CLOSED, t)
              ELSE b1)
        ELSE b1

\* variant: the circuit opens when failures exceed the threshold
CircuitBreaker_recordFailure_exceeds(b, t) ==
    LET b1 == [b EXCEPT !.failureCount = @ + 1, !.successCount = 0]
    IN  IF b1.state = HALF_OPEN
        THEN transitionTo(b1, OPEN, t)
        ELSE IF b1.failureCount > failureThreshold
             THEN transitionTo(b1, OPEN, t)
             ELSE b1

\* variant: the threshold applies while HALF_OPEN too
CircuitBreaker_recordFailure_thresholdOnly(b, t) ==
    LET b1 == [b EXCEPT !.failureCount = @ + 1, !.successCount = 0]
    IN  IF b1.failureCount >= failureThreshold
        THEN transitionTo(b1, OPEN, t)
        ELSE b1

\* variant: only a failed trial opens the circuit
CircuitBreaker_recordFailure_trialOnly(b, t) ==
    LET b1 == [b EXCEPT !.failureCount = @ + 1, !.successCount = 0]
    IN  IF b1.state = HALF_OPEN
        THEN transitionTo(b1, OPEN, t)
        ELSE b1

\* variant: a failure leaves the success count
CircuitBreaker_recordFailure_keepsSuccesses(b, t) ==
    LET b1 == [b EXCEPT !.failureCount = @ + 1]
    IN  IF b1.state = HALF_OPEN
        THEN transitionTo(b1, OPEN, t)
        ELSE IF b1.failureCount >= failureThreshold
             THEN transitionTo(b1, OPEN, t)
             ELSE b1

CircuitBreaker_recordFailure(b, t) ==
    LET b1 == [b EXCEPT !.failureCount = @ + 1, !.successCount = 0]
    IN  IF b1.state = HALF_OPEN
        THEN transitionTo(b1, OPEN, t)
        ELSE IF b1.failureCount >= failureThreshold
             THEN transitionTo(b1, OPEN, t)
             ELSE b1

\* variant: reset zeroes the counters and leaves the state
CircuitBreaker_reset_countersOnly(b, t) ==
    [b EXCEPT !.failureCount = 0, !.successCount = 0]

CircuitBreaker_reset(b, t) ==
    [transitionTo(b, CLOSED, t) EXCEPT !.failureCount = 0, !.successCount = 0]

getMetrics(b) ==
    [state |-> b.state, failureCount |-> b.failureCount,
     successCount |-> b.successCount, nextAttemptTime |-> b.nextAttemptTime]

----------------------------------------------------------------------------
(***************************************************************************)
(* SentinelService.  The three maps are functions whose domain is the set  *)
(* of registered ids.  Each method takes the registry                      *)
(* r = [cb, st, sc] and returns the registry afterwards together with the  *)
(* value returned and the events emitted.                                  *)
(***************************************************************************)

Registry == [cb |-> circuitBreakers, st |-> sourceStats, sc |-> sourceConfigs]

\* the registered ids
Registered == DOMAIN circuitBreakers

MapSet(m, k, v) == [x \in DOMAIN m \cup {k} |-> IF x = k THEN v ELSE m[x]]
MapDelete(m, k) == [x \in DOMAIN m \ {k} |-> m[x]]

NewSourceStats ==
    [totalRequests |-> 0, totalFailures |-> 0, lastError |-> NullString,
     responseTimes |-> <<>>]

\* variant: registration always installs a fresh breaker and statistics
registerSource_overwrites(r, source) ==
    [cb |-> MapSet(r.cb, source.id, NewCircuitBreaker),
     st |-> MapSet(r.st, source.id, NewSourceStats),
     sc |-> MapSet(r.sc, source.id, source)]

registerSource(r, source) ==
    IF source.id \notin DOMAIN r.cb
    THEN [cb |-> MapSet(r.cb, source.id, NewCircuitBreaker),
          st |-> MapSet(r.st, source.id, NewSourceStats),
          sc |-> MapSet(r.sc, source.id, source)]
    ELSE r

\* variant: unregistration keeps the statistics
unregisterSource_keepsStats(r, sourceId) ==
    [cb |-> MapDelete(r.cb, sourceId),
     st |-> r.st,
     sc |-> MapDelete(r.sc, sourceId)]

unregisterSource(r, sourceId) ==
    [cb |-> MapDelete(r.cb, sourceId),
     st |-> MapDelete(r.st, sourceId),
     sc |-> MapDelete(r.sc, sourceId)]

canRequest(r, sourceId, t) ==
    IF sourceId \notin DOMAIN r.cb
    THEN [ret |-> FALSE, r |-> r]
    ELSE LET res == canExecute(r.cb[sourceId], t)
         IN  [ret |-> res.ret, r |-> [r EXCEPT !.cb[sourceId] = res.b]]

\* variant: a full ring keeps its samples and drops the new one
PushResponseTime_dropsNewest(times, responseTimeMs) ==
    IF Len(times) >= MaxResponseTimes THEN times ELSE Append(times, responseTimeMs)

PushResponseTime(times, responseTimeMs) ==
    LET pushed == Append(times, responseTimeMs)
    IN  IF Len(pushed) > MaxResponseTimes THEN Tail(pushed) ELSE pushed

\* variant: the request is counted when the call starts and again when it
\* ends
SentinelService_recordSuccess_countsTwice(r, sourceId, responseTimeMs, t) ==
    IF sourceId \notin DOMAIN r.cb \/ sourceId \notin DOMAIN r.st
    THEN [r |-> r, events |-> <<>>]
    ELSE [r |-> [r EXCEPT
                   !.cb[sourceId] = CircuitBreaker_recordSuccess(@, t),
                   !.st[sourceId] =
                       [@ EXCEPT !.totalRequests = @ + 2,
                                 !.responseTimes =
                                     IF responseTimeMs # Null
                                     THEN PushResponseTime(@, responseTimeMs)
                                     ELSE @]],
          events |-> << [type |-> "source:healthy", sourceId |-> sourceId] >>]

\* variant: an outcome for an id without a breaker creates its entry
SentinelService_recordSuccess_creates(r, sourceId, responseTimeMs, t) ==
    LET r0 == registerSource(r, [id |-> sourceId, enabled |-> TRUE])
    IN  [r |-> [r0 EXCEPT
                  !.cb[sourceId] = CircuitBreaker_recordSuccess(@, t),
                  !.st[sourceId] =
                      [@ EXCEPT !.totalRequests = @ + 1,
                                !.responseTimes =
                                    IF responseTimeMs # Null
                                    THEN PushResponseTime(@, responseTimeMs)
                                    ELSE @]],
         events |-> << [type |-> "source:healthy", sourceId |-> sourceId] >>]

SentinelService_recordSuccess(r, sourceId, responseTimeMs, t) ==
    IF sourceId \notin DOMAIN r.cb \/ sourceId \notin DOMAIN r.st
    THEN [r |-> r, events |-> <<>>]
    ELSE [r |-> [r EXCEPT
                   !.cb[sourceId] = CircuitBreaker_recordSuccess(@, t),
                   !.st[sourceId] =
                       [@ EXCEPT !.totalRequests = @ + 1,
                                 !.responseTimes =
                                     IF responseTimeMs # Null
                                     THEN PushResponseTime(@, responseTimeMs)
                                     ELSE @]],
          events |-> << [type |-> "source:healthy", sourceId |-> sourceId] >>]

\* variant: the notification is chosen by the failure count
SentinelService_recordFailure_byCount(r, sourceId, error, t) ==
    IF sourceId \notin DOMAIN r.cb \/ sourceId \notin DOMAIN r.st
    THEN [r |-> r, events |-> <<>>]
    ELSE LET b1 == CircuitBreaker_recordFailure(r.cb[sourceId], t)
             metrics == getMetrics(b1)
         IN  [r |-> [r EXCEPT
                       !.cb[sourceId] = b1,
                       !.st[sourceId] =
                           [@ EXCEPT !.totalRequests = @ + 1,
                                     !.totalFailures = @ + 1,
                                     !.lastError = error]],
              events |->
                  IF metrics.failureCount >= failureThreshold
                  THEN << [type |-> "source:unhealthy", sourceId |-> sourceId],
                          [type |-> "circuit:opened", sourceId |-> sourceId] >>
                  ELSE << [type |-> "source:degraded", sourceId |-> sourceId,
                           failures |-> metrics.failureCount] >>]

\* variant: one failure count shared by all sources
SentinelService_recordFailure_shared(r, sourceId, error, t) ==
    IF sourceId \notin DOMAIN r.cb \/ sourceId \notin DOMAIN r.st
    THEN [r |-> r, events |-> <<>>]
    ELSE LET cb1 == [x \in DOMAIN r.cb |-> CircuitBreaker_recordFailure(r.cb[x], t)]
             metrics == getMetrics(cb1[sourceId])
         IN  [r |-> [r EXCEPT
                       !.cb = cb1,
                       !.st[sourceId] =
                           [@ EXCEPT !.totalRequests = @ + 1,
                                     !.totalFailures = @ + 1,
                                     !.lastError = error]],
              events |->
                  IF metrics.state = OPEN
                  THEN << [type |-> "source:unhealthy", sourceId |-> sourceId],
                          [type |-> "circuit:opened", sourceId |-> sourceId] >>
                  ELSE << [type |-> "source:degraded", sourceId |-> sourceId,
                           failures |-> metrics.failureCount] >>]

SentinelService_recordFailure(r, sourceId, error, t) ==
    IF sourceId \notin DOMAIN r.cb \/ sourceId \notin DOMAIN r.st
    THEN [r |-> r, events |-> <<>>]
    ELSE LET b1 == CircuitBreaker_recordFailure(r.cb[sourceId], t)
             metrics == getMetrics(b1)
         IN  [r |-> [r EXCEPT
                       !.cb[sourceId] = b1,
                       !.st[sourceId] =
                           [@ EXCEPT !.totalRequests = @ + 1,
                                     !.totalFailures = @ + 1,
                                     !.lastError = error]],
              events |->
                  IF metrics.state = OPEN
                  THEN << [type |-> "source:unhealthy", sourceId |-> sourceId],
                          [type |-> "circuit:opened", sourceId |-> sourceId] >>
                  ELSE << [type |-> "source:degraded", sourceId |-> sourceId,
                           failures |-> metrics.failureCount] >>]

\* variant: a reset also starts the statistics afresh
resetSource_zeroesTotals(r, sourceId, t) ==
    IF sourceId \notin DOMAIN r.cb
    THEN [ret |-> FALSE, r |-> r, events |-> <<>>]
    ELSE [ret |-> TRUE,
          r |-> [r EXCEPT !.cb[sourceId] = CircuitBreaker_reset(@, t),
                          !.st[sourceId] = NewSourceStats],
          events |-> << [type |-> "circuit:closed", sourceId |-> sourceId] >>]

resetSource(r, sourceId, t) ==
    IF sourceId \notin DOMAIN r.cb
    THEN [ret |-> FALSE, r |-> r, events |-> <<>>]
    ELSE [ret |-> TRUE,
          r |-> [r EXCEPT !.cb[sourceId] = CircuitBreaker_reset(@, t)],
          events |-> << [type |-> "circuit:closed", sourceId |-> sourceId] >>]

RECURSIVE Sum(_)
Sum(seq) == IF seq = << >> THEN 0 ELSE Head(seq) + Sum(Tail(seq))

\* a quotient the code computes in floating point, kept as the exact
\* fraction num / den
Quotient(num, den) == [num |-> num, den |-> den]

\* variant: only an OPEN circuit is reported as a problem
circuitStateToHealthStatus_openOnly(state) ==
    IF state = OPEN THEN UNHEALTHY ELSE HEALTHY

circuitStateToHealthStatus(state) ==
    CASE state = CLOSED -> HEALTHY
      [] state = HALF_OPEN -> DEGRADED
      [] state = OPEN -> UNHEALTHY

\* null for SourceHealth | null
NullHealth == [sourceId |-> NullString]

\* variant: uptime is the share of failed requests
getSourceHealth_failureShare(r, sourceId) ==
    IF sourceId \notin DOMAIN r.cb \/ sourceId \notin DOMAIN r.st
       \/ sourceId \notin DOMAIN r.sc
    THEN NullHealth
    ELSE LET metrics == getMetrics(r.cb[sourceId])
             stats == r.st[sourceId]
             avgResponseTime ==
                 IF Len(stats.responseTimes) > 0
                 THEN Quotient(Sum(stats.responseTimes), Len(stats.responseTimes))
                 ELSE Quotient(Null, 1)
             uptime ==
                 IF stats.totalRequests > 0
                 THEN Quotient(stats.totalFailures * 100,
                               stats.totalRequests)
                 ELSE Quotient(100, 1)
         IN  [sourceId |-> sourceId,
              status |-> circuitStateToHealthStatus(metrics.state),
              circuitState |-> metrics.state,
              consecutiveFailures |-> metrics.failureCount,
              consecutiveSuccesses |-> metrics.successCount,
              lastError |-> stats.lastError,
              totalRequests |-> stats.totalRequests,
              totalFailures |-> stats.totalFailures,
              uptime |-> uptime,
              responseTimeMs |-> avgResponseTime]

\* the SourceHealth report, or NullHealth; sourceName and the Date fields
\* are left out
getSourceHealth(r, sourceId) ==
    IF sourceId \notin DOMAIN r.cb \/ sourceId \notin DOMAIN r.st
       \/ sourceId \notin DOMAIN r.sc
    THEN NullHealth
    ELSE LET metrics == getMetrics(r.cb[sourceId])
             stats == r.st[sourceId]
             avgResponseTime ==
                 IF Len(stats.responseTimes) > 0
                 THEN Quotient(Sum(stats.responseTimes), Len(stats.responseTimes))
                 ELSE Quotient(Null, 1)
             uptime ==
                 IF stats.totalRequests > 0
                 THEN Quotient((stats.totalRequests - stats.totalFailures) * 100,
                               stats.totalRequests)
                 ELSE Quotient(100, 1)
         IN  [sourceId |-> sourceId,
              status |-> circuitStateToHealthStatus(metrics.state),
              circuitState |-> metrics.state,
              consecutiveFailures |-> metrics.failureCount,
              consecutiveSuccesses |-> metrics.successCount,
              lastError |-> stats.lastError,
              totalRequests |-> stats.totalRequests,
              totalFailures |-> stats.totalFailures,
              uptime |-> uptime,
              responseTimeMs |-> avgResponseTime]

\* the reports of the ids that have one, as a function of the id
getAllSourceHealth(r) ==
    [sourceId \in {x \in DOMAIN r.cb : getSourceHealth(r, x) # NullHealth} |->
        getSourceHealth(r, sourceId)]

\* variant: one unhealthy source makes the whole service unhealthy
getHealthSummary_anyUnhealthy(r) ==
    LET allHealth == getAllSourceHealth(r)
        healthy == {x \in DOMAIN allHealth : allHealth[x].status = HEALTHY}
        degraded == {x \in DOMAIN allHealth : allHealth[x].status = DEGRADED}
        unhealthy == {x \in DOMAIN allHealth : allHealth[x].status = UNHEALTHY}
        overallStatus ==
            IF Cardinality(unhealthy) > 0
            THEN UNHEALTHY
            ELSE IF Cardinality(degraded) > 0 THEN DEGRADED
            ELSE HEALTHY
    IN  [totalSources |-> Cardinality(DOMAIN allHealth),
         healthySources |-> Cardinality(healthy),
         degradedSources |-> Cardinality(degraded),
         unhealthySources |-> Cardinality(unhealthy),
         overallStatus |-> overallStatus,
         sources |-> [x \in DOMAIN allHealth |-> allHealth[x].status]]

\* the summary without the per-source messages
getHealthSummary(r) ==
    LET allHealth == getAllSourceHealth(r)
        healthy == {x \in DOMAIN allHealth : allHealth[x].status = HEALTHY}
        degraded == {x \in DOMAIN allHealth : allHealth[x].status = DEGRADED}
        unhealthy == {x \in DOMAIN allHealth : allHealth[x].status = UNHEALTHY}
        overallStatus ==
            IF Cardinality(unhealthy) > 0
            THEN (IF Cardinality(unhealthy) = Cardinality(DOMAIN allHealth)
                  THEN UNHEALTHY ELSE DEGRADED)
            ELSE IF Cardinality(degraded) > 0 THEN DEGRADED
            ELSE HEALTHY
    IN  [totalSources |-> Cardinality(DOMAIN allHealth),
         healthySources |-> Cardinality(healthy),
         degradedSources |-> Cardinality(degraded),
         unhealthySources |-> Cardinality(unhealthy),
         overallStatus |-> overallStatus,
         sources |-> [x \in DOMAIN allHealth |-> allHealth[x].status]]

----------------------------------------------------------------------------
(***************************************************************************)
(* History variables.  They record what has been done to a breaker and are *)
(* never read by the program.  kind is the registry call that was made for *)
(* id: "recordFailure", "recordSuccess", "resetSource", "canRequest" or     *)
(* "lifecycle" (registerSource / unregisterSource).                        *)
(***************************************************************************)

\* failures recorded in a row since the breaker was CLOSED with a zero
\* failure streak; -1 once a success, a reset or a recovery has intervened
failRunAfter(kind, id, r0, r1, old) ==
    IF id \notin DOMAIN r1.cb THEN -1
    ELSE IF id \notin DOMAIN r0.cb THEN 0
    ELSE IF kind = "recordFailure" THEN (IF old >= 0 THEN old + 1 ELSE -1)
    ELSE IF kind = "recordSuccess" THEN (IF r1.cb[id].state = CLOSED THEN 0 ELSE -1)
    ELSE IF kind = "resetSource" THEN 0
    ELSE IF r1.cb[id] = r0.cb[id] THEN old ELSE -1

\* the time at which a recordFailure took the breaker from CLOSED or
\* HALF_OPEN to OPEN; forgotten by a reset or an unregistration, and once
\* the breaker is found out of OPEN after the recovery time
openedAtAfter(kind, id, r0, r1, old, t) ==
    IF id \notin DOMAIN r1.cb \/ id \notin DOMAIN r0.cb THEN Null
    ELSE IF kind = "resetSource" THEN Null
    ELSE IF kind = "recordFailure" /\ r0.cb[id].state # OPEN /\ r1.cb[id].state = OPEN THEN t
    ELSE IF old # Null /\ t >= old + recoveryTimeoutMs /\ r1.cb[id].state # OPEN THEN Null
    ELSE old

\* recordSuccess calls made in a row while the breaker was HALF_OPEN
halfOpenSuccessesAfter(kind, id, r0, r1, old) ==
    IF id \notin DOMAIN r1.cb \/ id \notin DOMAIN r0.cb THEN 0
    ELSE IF kind = "recordSuccess" /\ r0.cb[id].state = HALF_OPEN THEN old + 1
    ELSE IF r1.cb[id] = r0.cb[id] THEN old
    ELSE 0

\* recordFailure calls accepted for id since it was registered, since the
\* last recordSuccess and since the last resetSource
failStreakAfter(kind, id, r0, r1, old) ==
    IF id \notin DOMAIN r1.cb \/ id \notin DOMAIN r0.cb THEN 0
    ELSE IF kind = "recordFailure" THEN old + 1
    ELSE IF kind \in {"recordSuccess", "resetSource"} THEN 0
    ELSE old

\* the latencies passed to the recordSuccess calls accepted for id since it
\* was registered, oldest first
sampledAfter(kind, id, r0, r1, old, responseTimeMs) ==
    IF id \notin DOMAIN r1.cb \/ id \notin DOMAIN r0.cb THEN << >>
    ELSE IF kind = "recordSuccess" /\ responseTimeMs # Null
         THEN Append(old, responseTimeMs)
    ELSE old

\* lastCall: the kind of registry call the last step made ("none" when it
\* made none), the circuit state each id it was made for had before the
\* call ("none" for an id that was not registered), and the ids for which
\* the call returned true
StateBefore(S) ==
    [id \in S |-> IF id \in DOMAIN circuitBreakers
                  THEN circuitBreakers[id].state ELSE "none"]

Call(kind, S, ok) == [kind |-> kind, before |-> StateBefore(S), ok |-> ok]

NoCall == Call("none", {}, {})

\* the step makes registry calls of the given kind for the ids in S, which
\* return true for the ids in ok, emit events and leave the registry r1;
\* responseTimeMs is the latency passed when the call is a recordSuccess
CommitWith(kind, S, ok, events, r1, responseTimeMs) ==
    \E r \in {r1} :
        /\ circuitBreakers' = r.cb
        /\ sourceStats' = r.st
        /\ sourceConfigs' = r.sc
        /\ emitted' = events
        /\ lastCall' = Call(kind, S, ok)
        /\ failRun' = [id \in ConfigIds |->
                         IF id \in S
                         THEN failRunAfter(kind, id, Registry, r, failRun[id])
                         ELSE failRun[id]]
        /\ openedAt' = [id \in ConfigIds |->
                          IF id \in S
                          THEN openedAtAfter(kind, id, Registry, r, openedAt[id], now)
                          ELSE openedAt[id]]
        /\ halfOpenSuccesses' = [id \in ConfigIds |->
                          IF id \in S
                          THEN halfOpenSuccessesAfter(kind, id, Registry, r,
                                                      halfOpenSuccesses[id])
                          ELSE halfOpenSuccesses[id]]
        /\ failStreak' = [id \in ConfigIds |->
                          IF id \in S
                          THEN failStreakAfter(kind, id, Registry, r, failStreak[id])
                          ELSE failStreak[id]]
        /\ sampled' = [id \in ConfigIds |->
                          IF id \in S
                          THEN sampledAfter(kind, id, Registry, r, sampled[id],
                                            responseTimeMs)
                          ELSE sampled[id]]
        /\ UNCHANGED <<fetchCall, parseCall, toolCall, loader>>

Commit(kind, S, ok, events, r1) == CommitWith(kind, S, ok, events, r1, Null)

\* the step makes no registry call
RegistryUntouched ==
    /\ emitted' = << >>
    /\ lastCall' = NoCall
    /\ UNCHANGED <<circuitBreakers, sourceStats, sourceConfigs, failRun,
                   openedAt, halfOpenSuccesses, failStreak, sampled>>

\* the step is a step of the server that makes no registry call
NoRegistryCall ==
    /\ RegistryUntouched
    /\ UNCHANGED <<fetchCall, parseCall, toolCall, loader>>

----------------------------------------------------------------------------
(***************************************************************************)
(* The server: construction, start, configuration changes.                 *)
(***************************************************************************)

\* configurations over the ids U that pass AppConfigSchema: at least one source
ValidConfigs(U) ==
    UNION { [S -> BOOLEAN] : S \in (SUBSET U) \ {{}} }

Source(cfg, id) == [id |-> id, enabled |-> cfg[id]]

RECURSIVE RegisterAll(_, _, _)
RegisterAll(r, cfg, S) ==
    IF S = {} THEN r
    ELSE LET id == CHOOSE x \in S : TRUE
         IN  RegisterAll(registerSource(r, Source(cfg, id)), cfg, S \ {id})

RECURSIVE UnregisterAll(_, _)
UnregisterAll(r, S) ==
    IF S = {} THEN r
    ELSE LET id == CHOOSE x \in S : TRUE
         IN  UnregisterAll(unregisterSource(r, id), S \ {id})

getAddedSources(prev, curr) == DOMAIN curr \ DOMAIN prev
getRemovedSources(prev, curr) == DOMAIN prev \ DOMAIN curr

\* variant: the listener registers the added sources and forgets the
\* removed ones
OnConfigChanged_addOnly(r, previous, current) ==
    RegisterAll(r, current, getAddedSources(previous, current))

\* the 'config:changed' listener of OmniWireServer.setupEventListeners
OnConfigChanged(r, previous, current) ==
    UnregisterAll(
        RegisterAll(r, current, getAddedSources(previous, current)),
        getRemovedSources(previous, current))

\* the state after new OmniWireServer() in a deployment whose RSS_FEEDS is
\* (url = TRUE) or is not (url = FALSE) the URL of a remote configuration
InitServer(url) ==
    /\ now = 0
    /\ started = FALSE
    /\ remote = url
    /\ config = << >>
    /\ circuitBreakers = << >>
    /\ sourceStats = << >>
    /\ sourceConfigs = << >>
    /\ inflight = EmptyBag
    /\ emitted = << >>
    /\ lastCall = NoCall
    /\ failRun = [id \in ConfigIds |-> -1]
    /\ openedAt = [id \in ConfigIds |-> Null]
    /\ halfOpenSuccesses = [id \in ConfigIds |-> 0]
    /\ failStreak = [id \in ConfigIds |-> 0]
    /\ sampled = [id \in ConfigIds |-> << >>]

InitWith(url) ==
    /\ InitServer(url)
    /\ fetchCall = NoFetchCall
    /\ parseCall = NoParseCall
    /\ toolCall = NoToolCall
    /\ loader = NoLoader

Init == InitWith(FALSE)

\* OmniWireServer.start(): initialize the configuration over the ids U,
\* register the enabled sources.  With a remote URL the first load emits
\* config:changed; a load that fails leaves DEFAULT_CONFIG (no sources).
Start(U) ==
    /\ ~started
    /\ \E cfg \in ValidConfigs(U) \cup {<< >>} :
         LET r0 == IF remote /\ cfg # << >>
                   THEN OnConfigChanged(Registry, config, cfg)
                   ELSE Registry
             r1 == RegisterAll(r0, cfg, {id \in DOMAIN cfg : cfg[id]})
         IN  /\ config' = cfg
             /\ Commit("lifecycle", ConfigIds, DOMAIN r1.cb, << >>, r1)
    /\ started' = TRUE
    /\ UNCHANGED <<now, remote, inflight>>

\* ConfigLoader.loadRemoteConfig() from the poll timer or refresh-config,
\* with a configuration that validates and whose hash differs
LoadRemoteConfig(U) ==
    /\ started
    /\ remote
    /\ \E cfg \in ValidConfigs(U) :
         LET r1 == OnConfigChanged(Registry, config, cfg)
         IN  /\ cfg # config
             /\ config' = cfg
             /\ Commit("lifecycle", ConfigIds, DOMAIN r1.cb, << >>, r1)
    /\ UNCHANGED <<now, started, remote, inflight>>

\* the clock advances; no fetch stays in flight for more than MaxFetchTicks
Tick ==
    /\ now < MaxTicks * TickMs
    /\ \A task \in BagToSet(inflight) :
         now + TickMs - task.startTime <= MaxFetchTicks * TickMs
    /\ now' = now + TickMs
    /\ NoRegistryCall
    /\ UNCHANGED <<started, remote, config, inflight>>

----------------------------------------------------------------------------
(***************************************************************************)
(* Request handlers.  A task is one call of fetchAndParse that has not     *)
(* returned: the source it fetches, the time it started and whether the    *)
(* handler that started it had canRequest return true for that source.     *)
(***************************************************************************)

Task(sourceId, admitted) ==
    [sourceId |-> sourceId, startTime |-> now, admitted |-> admitted]

\* targetSources.filter(s => services.sentinel.canRequest(s.id)):
\* [r |-> the registry afterwards, healthy |-> the ids kept]
RECURSIVE FilterCanRequest(_, _, _)
FilterCanRequest(r, S, t) ==
    IF S = {} THEN [r |-> r, healthy |-> {}]
    ELSE LET id == CHOOSE x \in S : TRUE
             res == canRequest(r, id, t)
             rest == FilterCanRequest(res.r, S \ {id}, t)
         IN  [r |-> rest.r,
              healthy |-> IF res.ret THEN rest.healthy \cup {id} ELSE rest.healthy]

EnabledSources == {id \in DOMAIN config : config[id]}

\* the gate and the fan-out shared by fetch-news and news://all
GateAndFetch(targetSources) ==
    \E res \in {FilterCanRequest(Registry, targetSources, now)} :
    LET tasks == SetToBag({Task(id, TRUE) : id \in res.healthy})
    IN  /\ BagCardinality(inflight) + Cardinality(targetSources) <= MaxInflight
        /\ Commit("canRequest", targetSources, res.healthy, << >>, res.r)
        /\ inflight' = inflight (+) tasks
        /\ UNCHANGED <<now, started, remote, config>>

\* the fetch-news tool; sourceId = "*" when the argument is omitted
FetchNews(sourceId) ==
    /\ started
    /\ LET targetSources == IF sourceId = "*" THEN EnabledSources
                            ELSE EnabledSources \cap {sourceId}
       IN  IF sourceId # "*" /\ targetSources = {}
           THEN /\ NoRegistryCall
                /\ UNCHANGED <<now, started, remote, config, inflight>>
           ELSE GateAndFetch(targetSources)

\* the news://all resource
NewsAll ==
    /\ started
    /\ GateAndFetch(EnabledSources)

\* the news://source/{sourceId} resource
NewsSource(sourceId) ==
    /\ started
    /\ IF sourceId \notin DOMAIN config
       THEN UNCHANGED inflight
       ELSE /\ BagCardinality(inflight) < MaxInflight
            /\ inflight' = inflight (+) SetToBag({Task(sourceId, FALSE)})
    /\ NoRegistryCall
    /\ UNCHANGED <<now, started, remote, config>>

Recordable(sourceId) ==
    sourceId \in DOMAIN sourceStats => sourceStats[sourceId].totalRequests < MaxRequests

\* fetchAndParse returns a result with success = true
CompleteSuccess(task) ==
    /\ BagIn(task, inflight)
    /\ Recordable(task.sourceId)
    /\ LET res == SentinelService_recordSuccess(Registry, task.sourceId,
                                                now - task.startTime, now)
       IN  CommitWith("recordSuccess", {task.sourceId}, {}, res.events, res.r,
                      now - task.startTime)
    /\ inflight' = inflight (-) SetToBag({task})
    /\ UNCHANGED <<now, started, remote, config>>

\* fetchAndParse returns a result with success = false
CompleteFailure(task, error) ==
    /\ BagIn(task, inflight)
    /\ Recordable(task.sourceId)
    /\ LET res == SentinelService_recordFailure(Registry, task.sourceId, error, now)
       IN  Commit("recordFailure", {task.sourceId}, {}, res.events, res.r)
    /\ inflight' = inflight (-) SetToBag({task})
    /\ UNCHANGED <<now, started, remote, config>>

\* the reset-source tool
ResetSource(sourceId) ==
    /\ started
    /\ LET res == resetSource(Registry, sourceId, now)
       IN  Commit("resetSource", {sourceId}, IF res.ret THEN {sourceId} ELSE {},
                  res.events, res.r)
    /\ UNCHANGED <<now, started, remote, config, inflight>>

\* the check-health tool (sourceId = "*" when the argument is omitted) and
\* the health://sources resource: a report is computed and returned
CheckHealth(sourceId) ==
    /\ started
    /\ IF sourceId = "*"
       THEN Commit("getSourceHealth", Registered,
                   DOMAIN getHealthSummary(Registry).sources, << >>, Registry)
       ELSE Commit("getSourceHealth", {sourceId},
                   {x \in {sourceId} : getSourceHealth(Registry, x) # NullHealth},
                   << >>, Registry)
    /\ UNCHANGED <<now, started, remote, config, inflight>>

\* the handlers a client can invoke and the steps of the environment, when
\* the configuration names sources among U and clients name ids among
\* U and UnknownId
Requests(U) ==
    \/ Tick
    \/ \E sourceId \in U \cup {UnknownId, "*"} : FetchNews(sourceId)
    \/ NewsAll
    \/ \E sourceId \in U \cup {UnknownId} : NewsSource(sourceId)
    \/ \E task \in BagToSet(inflight) : CompleteSuccess(task)
    \/ \E task \in BagToSet(inflight), error \in Errors : CompleteFailure(task, error)
    \/ \E sourceId \in U \cup {UnknownId} : ResetSource(sourceId)
    \/ \E sourceId \in U \cup {UnknownId, "*"} : CheckHealth(sourceId)

\* a deployment that is configured once (RSS_FEEDS is not a URL), with the
\* one source "a"
Next ==
    \/ Start({"a"})
    \/ Requests({"a"})

Spec == Init /\ [][Next]_vars

\* the same deployment with a clock that keeps advancing (until the horizon
\* of the model), a client that keeps calling fetch-news for "a", and
\* fetches that return: fetchAndParse aborts a fetch at requestTimeoutMs
Completes ==
    \E task \in BagToSet(inflight), error \in Errors :
        CompleteSuccess(task) \/ CompleteFailure(task, error)

\* the steps that bear on the recovery of "a": the gated and the ungated
\* fetch of "a", their outcomes, the manual reset and the clock
NextLive ==
    \/ Start({"a"})
    \/ Tick
    \/ FetchNews("a")
    \/ NewsSource("a")
    \/ \E task \in BagToSet(inflight) : CompleteSuccess(task)
    \/ \E task \in BagToSet(inflight), error \in Errors : CompleteFailure(task, error)
    \/ ResetSource("a")

SpecLive ==
    /\ Init
    /\ [][NextLive]_vars
    /\ WF_vars(Tick)
    /\ SF_vars(FetchNews("a"))
    /\ WF_vars(Completes)

\* a deployment whose RSS_FEEDS is a URL: the configuration names sources
\* among "a" and "b" and is reloaded while fetches of "a" are in flight
NextRemote ==
    \/ Start(ConfigIds)
    \/ LoadRemoteConfig(ConfigIds)
    \/ Tick
    \/ FetchNews("a")
    \/ \E task \in BagToSet(inflight) : CompleteSuccess(task)
    \/ \E task \in BagToSet(inflight), error \in Errors : CompleteFailure(task, error)

SpecRemote == InitWith(TRUE) /\ [][NextRemote]_vars

----------------------------------------------------------------------------
(***************************************************************************)
(* The SentinelService on its own: a client that holds the service calls   *)
(* its public methods directly, for any id, in any order, as the clock     *)
(* advances.                                                               *)
(***************************************************************************)

\* the responseTimeMs a caller reports
Latencies == {0}

RECURSIVE TotalRequests(_, _)
TotalRequests(st, S) ==
    IF S = {} THEN 0
    ELSE LET id == CHOOSE x \in S : TRUE
         IN  st[id].totalRequests + TotalRequests(st, S \ {id})

\* the outcomes recorded for the registered sources stay within the bound
WithinBudget == TotalRequests(sourceStats, DOMAIN sourceStats) < MaxSentinelRequests

CallRegisterSource(sourceId, enabled) ==
    /\ Commit("lifecycle", {sourceId}, {},  << >>,
              registerSource(Registry, [id |-> sourceId, enabled |-> enabled]))
    /\ UNCHANGED <<now, started, remote, config, inflight>>

CallUnregisterSource(sourceId) ==
    /\ Commit("lifecycle", {sourceId}, {}, << >>, unregisterSource(Registry, sourceId))
    /\ UNCHANGED <<now, started, remote, config, inflight>>

CallCanRequest(sourceId) ==
    /\ LET res == canRequest(Registry, sourceId, now)
       IN  Commit("canRequest", {sourceId}, IF res.ret THEN {sourceId} ELSE {},
                  << >>, res.r)
    /\ UNCHANGED <<now, started, remote, config, inflight>>

CallRecordSuccess(sourceId, responseTimeMs) ==
    /\ WithinBudget
    /\ LET res == SentinelService_recordSuccess(Registry, sourceId, responseTimeMs, now)
       IN  CommitWith("recordSuccess", {sourceId}, {}, res.events, res.r,
                      responseTimeMs)
    /\ UNCHANGED <<now, started, remote, config, inflight>>

CallRecordFailure(sourceId, error) ==
    /\ WithinBudget
    /\ LET res == SentinelService_recordFailure(Registry, sourceId, error, now)
       IN  Commit("recordFailure", {sourceId}, {}, res.events, res.r)
    /\ UNCHANGED <<now, started, remote, config, inflight>>

CallGetSourceHealth(sourceId) ==
    /\ Commit("getSourceHealth", {sourceId},
              {x \in {sourceId} : getSourceHealth(Registry, x) # NullHealth},
              << >>, Registry)
    /\ UNCHANGED <<now, started, remote, config, inflight>>

CallGetHealthSummary ==
    /\ Commit("getSourceHealth", Registered,
              DOMAIN getHealthSummary(Registry).sources, << >>, Registry)
    /\ UNCHANGED <<now, started, remote, config, inflight>>

CallResetSource(sourceId) ==
    /\ LET res == resetSource(Registry, sourceId, now)
       IN  Commit("resetSource", {sourceId}, IF res.ret THEN {sourceId} ELSE {},
                  res.events, res.r)
    /\ UNCHANGED <<now, started, remote, config, inflight>>

NextSentinel ==
    \/ Tick
    \/ \E sourceId \in ConfigIds, enabled \in {TRUE} : CallRegisterSource(sourceId, enabled)
    \/ \E sourceId \in AllIds : CallUnregisterSource(sourceId)
    \/ \E sourceId \in AllIds : CallCanRequest(sourceId)
    \/ \E sourceId \in AllIds, responseTimeMs \in Latencies :
           CallRecordSuccess(sourceId, responseTimeMs)
    \/ \E sourceId \in AllIds, error \in Errors : CallRecordFailure(sourceId, error)
    \/ \E sourceId \in AllIds : CallResetSource(sourceId)
    \/ \E sourceId \in AllIds : CallGetSourceHealth(sourceId)
    \/ CallGetHealthSummary

SpecSentinel == Init /\ [][NextSentinel]_vars

TypeOK ==
    /\ now \in 0..(MaxTicks * TickMs)
    /\ DOMAIN circuitBreakers \subseteq ConfigIds
    /\ DOMAIN sourceStats = DOMAIN circuitBreakers
    /\ DOMAIN sourceConfigs = DOMAIN circuitBreakers
    /\ BagCardinality(inflight) <= MaxInflight

----------------------------------------------------------------------------
(***************************************************************************)
(* The statistics of one source under a long run of outcomes: a client     *)
(* registers "a" and records successes with latencies of 1 or 2 ms and     *)
(* a few failures, at one instant.                                         *)
(***************************************************************************)

RingLatencies == {1, 2}

RingRecordSuccess(responseTimeMs) ==
    /\ "a" \in Registered
    /\ sourceStats["a"].totalRequests < MaxRingRequests
    /\ LET res == SentinelService_recordSuccess(Registry, "a", responseTimeMs, now)
       IN  CommitWith("recordSuccess", {"a"}, {}, res.events, res.r, responseTimeMs)
    /\ UNCHANGED <<now, started, remote, config, inflight>>

RingRecordFailure(error) ==
    /\ "a" \in Registered
    /\ sourceStats["a"].totalRequests < MaxRingRequests
    /\ sourceStats["a"].totalFailures < MaxRingFailures
    /\ LET res == SentinelService_recordFailure(Registry, "a", error, now)
       IN  Commit("recordFailure", {"a"}, {}, res.events, res.r)
    /\ UNCHANGED <<now, started, remote, config, inflight>>

NextRing ==
    \/ CallRegisterSource("a", TRUE)
    \/ \E responseTimeMs \in RingLatencies : RingRecordSuccess(responseTimeMs)
    \/ \E error \in Errors : RingRecordFailure(error)

SpecRing == Init /\ [][NextRing]_vars

----------------------------------------------------------------------------
(***************************************************************************)
(* Properties.                                                             *)
(***************************************************************************)

\* the ids the last step called the registry for
Called == DOMAIN lastCall.before

\* C1: from a CLOSED breaker with a zero failure streak, while only
\* failures are recorded (no success, no reset, no recovery observed), the
\* breaker is CLOSED after fewer than failureThreshold failures and OPEN
\* after the failureThreshold-th and after every further one.
C1_OpensExactlyAtThreshold ==
    \A id \in Registered :
        failRun[id] >= 0 =>
            circuitBreakers[id].state =
                (IF failRun[id] < failureThreshold THEN CLOSED ELSE OPEN)

\* a failure recorded after the one that opened the circuit
C1_Witness ==
    \E id \in Registered :
        /\ failRun[id] > failureThreshold
        /\ lastCall.kind = "recordFailure"
        /\ id \in Called
        /\ circuitBreakers[id].state = OPEN

\* C2: while less than recoveryTimeoutMs has passed since the breaker
\* entered OPEN, the breaker is OPEN, a canRequest call returns false and
\* changes nothing, and a canRequest call just made did return false,
\* whatever successes and failures were recorded in between.
C2_RejectsDuringRecoveryWindow ==
    \A id \in ConfigIds :
        (openedAt[id] # Null /\ now < openedAt[id] + recoveryTimeoutMs) =>
            /\ id \in Registered
            /\ circuitBreakers[id].state = OPEN
            /\ canRequest(Registry, id, now) = [ret |-> FALSE, r |-> Registry]
            /\ (lastCall.kind = "canRequest" /\ id \in Called) => id \notin lastCall.ok

\* a request turned away inside the window, after time has passed and a
\* late success has been recorded on the OPEN breaker
C2_Witness ==
    \E id \in Registered :
        /\ openedAt[id] # Null
        /\ openedAt[id] < now
        /\ now < openedAt[id] + recoveryTimeoutMs
        /\ circuitBreakers[id].successCount > 0
        /\ lastCall.kind = "canRequest"
        /\ id \in Called
        /\ id \notin lastCall.ok

\* C3: once recoveryTimeoutMs has passed since the breaker went from
\* CLOSED or HALF_OPEN to OPEN, with no reset since, the first canExecute
\* call returns true and leaves the breaker HALF_OPEN with nextAttemptTime
\* cleared.
C3_RecoversAfterTimeout ==
    \A id \in Registered :
        (openedAt[id] # Null /\ now >= openedAt[id] + recoveryTimeoutMs) =>
            LET res == canRequest(Registry, id, now)
            IN  /\ res.ret = TRUE
                /\ res.r.cb[id].state = HALF_OPEN
                /\ res.r.cb[id].nextAttemptTime = Null

C5_HalfOpenSuccessesClose ==
    \A id \in Registered :
        halfOpenSuccesses[id] >= successThreshold =>
            /\ circuitBreakers[id].state = CLOSED
            /\ circuitBreakers[id].failureCount = 0
            /\ circuitBreakers[id].successCount = 0
            /\ circuitBreakers[id].nextAttemptTime = Null

\* the success that closes the circuit
C5_Witness ==
    \E id \in Called :
        /\ lastCall.kind = "recordSuccess"
        /\ lastCall.before[id] = HALF_OPEN
        /\ halfOpenSuccesses[id] = successThreshold

C7_FetchOnlyAfterCanRequest ==
    \A task \in BagToSet(inflight) : task.admitted

\* C10: resetSource on a registered id returns true, leaves the breaker
\* CLOSED with both counters zero and emits circuit:closed, whatever the
\* state was; on an unknown id it returns false, changes nothing and emits
\* nothing.
C10_ResetSource ==
    /\ \A id \in AllIds \ Registered :
        resetSource(Registry, id, now) = [ret |-> FALSE, r |-> Registry, events |-> << >>]
    /\ \A id \in Called :
        lastCall.kind = "resetSource" =>
            IF lastCall.before[id] = "none"
            THEN /\ id \notin lastCall.ok
                 /\ id \notin Registered
                 /\ emitted = << >>
            ELSE /\ id \in lastCall.ok
                 /\ circuitBreakers[id].state = CLOSED
                 /\ circuitBreakers[id].failureCount = 0
                 /\ circuitBreakers[id].successCount = 0
                 /\ emitted = << [type |-> "circuit:closed", sourceId |-> id] >>

\* an OPEN breaker that has just been reset
C10_Witness ==
    \E id \in Called :
        /\ lastCall.kind = "resetSource"
        /\ lastCall.before[id] = OPEN
        /\ circuitBreakers[id].state = CLOSED

\* what the registry holds for one id
Entry(r, id) == [cb |-> r.cb[id], st |-> r.st[id], sc |-> r.sc[id]]

\* a step leaves every registered id it makes no registry call for as it was
FrameStep ==
    \A B \in DOMAIN circuitBreakers \ DOMAIN lastCall'.before :
        /\ B \in DOMAIN circuitBreakers'
        /\ circuitBreakers'[B] = circuitBreakers[B]
        /\ sourceStats'[B] = sourceStats[B]
        /\ sourceConfigs'[B] = sourceConfigs[B]

\* C8: registerSource, unregisterSource, canRequest, recordSuccess,
\* recordFailure and resetSource called for an id A leave the breaker, the
\* statistics and the source record of every other registered id B as they
\* were, whether as the step the client takes or as any call that could be
\* made in the current state; and a registered source that has no failure
\* of its own recorded is admitted by canRequest, whatever was recorded for
\* the others.
C8_FailureIsolation ==
    /\ [][FrameStep]_vars
    /\ [](\A B \in Registered :
            /\ sourceStats[B].totalFailures = 0 => canRequest(Registry, B, now).ret
            /\ \A A \in AllIds \ {B} :
                 \A r1 \in { registerSource(Registry, [id |-> A, enabled |-> TRUE]),
                             unregisterSource(Registry, A),
                             canRequest(Registry, A, now).r,
                             SentinelService_recordSuccess(Registry, A, 0, now).r,
                             SentinelService_recordFailure(Registry, A,
                                 "HTTP 500: Internal Server Error", now).r,
                             resetSource(Registry, A, now).r } :
                     B \in DOMAIN r1.cb /\ Entry(r1, B) = Entry(Registry, B))

\* "a" has failed more often than the threshold and is OPEN, the last call
\* recorded a failure of "a", and "b", with outcomes recorded, is admitted
C8_Witness ==
    /\ lastCall.kind = "recordFailure"
    /\ Called = {"a"}
    /\ Registered = {"a", "b"}
    /\ sourceStats["a"].totalFailures > failureThreshold
    /\ circuitBreakers["a"].state = OPEN
    /\ sourceStats["b"].totalRequests > 0
    /\ canRequest(Registry, "b", now).ret

\* the last step recorded a failure of id or reset it by hand
Intervened(id) ==
    /\ lastCall.kind \in {"recordFailure", "resetSource"}
    /\ id \in Called

\* the model can record no further outcome for id
Exhausted(id) == ~Recordable(id)

\* id is OPEN and its recovery time lies within the horizon of the clock
OpenWithinHorizon(id) ==
    /\ id \in Registered
    /\ circuitBreakers[id].state = OPEN
    /\ circuitBreakers[id].nextAttemptTime <= MaxTicks * TickMs

\* id is HALF_OPEN and the model can still record successThreshold outcomes
HalfOpenWithinBudget(id) ==
    /\ id \in Registered
    /\ circuitBreakers[id].state = HALF_OPEN
    /\ sourceStats[id].totalRequests + successThreshold <= MaxRequests

\* C9: when the clock keeps advancing, fetch-news keeps being called for
\* the source and every fetch returns, an OPEN breaker becomes HALF_OPEN
\* unless a further failure is recorded (or an operator resets it, or the
\* model can record no further outcome), and a HALF_OPEN breaker becomes
\* CLOSED unless a failure is recorded (or an operator resets it).
C9_SelfHealing ==
    /\ OpenWithinHorizon("a") ~>
           (\/ "a" \in Registered /\ circuitBreakers["a"].state = HALF_OPEN
            \/ Intervened("a")
            \/ Exhausted("a"))
    /\ HalfOpenWithinBudget("a") ~>
           (\/ "a" \in Registered /\ circuitBreakers["a"].state = CLOSED
            \/ Intervened("a"))

\* failureThreshold failures opened the circuit, the recovery time passed,
\* and the successThreshold-th trial success has just closed it
C9_Witness ==
    /\ "a" \in Registered
    /\ circuitBreakers["a"].state = CLOSED
    /\ lastCall.kind = "recordSuccess"
    /\ "a" \in Called
    /\ lastCall.before["a"] = HALF_OPEN
    /\ sourceStats["a"].totalFailures = failureThreshold
    /\ sourceStats["a"].totalRequests = failureThreshold + successThreshold
    /\ now >= recoveryTimeoutMs

\* C11: the health report of a registered source.  While the recovery time
\* of the opening has not elapsed, a source with n >= failureThreshold
\* failures recorded in a row is reported unhealthy, OPEN, with
\* consecutiveFailures = n, and canRequest is false for it; right after
\* resetSource it is reported healthy, CLOSED, with both consecutive
\* counters 0; and the reported status is always the image of the reported
\* circuit state.
C11_HealthReport ==
    \A id \in Registered :
        LET h == getSourceHealth(Registry, id)
        IN  /\ h # NullHealth
            /\ \/ h.circuitState = CLOSED /\ h.status = HEALTHY
               \/ h.circuitState = HALF_OPEN /\ h.status = DEGRADED
               \/ h.circuitState = OPEN /\ h.status = UNHEALTHY
            /\ (/\ failStreak[id] >= failureThreshold
                /\ openedAt[id] # Null
                /\ now < openedAt[id] + recoveryTimeoutMs)
               => /\ h.status = UNHEALTHY
                  /\ h.circuitState = OPEN
                  /\ h.consecutiveFailures = failStreak[id]
                  /\ ~canRequest(Registry, id, now).ret
            /\ (lastCall.kind = "resetSource" /\ id \in Called)
               => /\ h.status = HEALTHY
                  /\ h.circuitState = CLOSED
                  /\ h.consecutiveFailures = 0
                  /\ h.consecutiveSuccesses = 0

\* the report just requested for a source with failureThreshold + 1
\* failures in a row, and canRequest is false
C11_Witness ==
    \E id \in Registered :
        /\ lastCall.kind = "getSourceHealth"
        /\ id \in lastCall.ok
        /\ failStreak[id] = failureThreshold + 1
        /\ getSourceHealth(Registry, id).consecutiveFailures = failureThreshold + 1
        /\ getSourceHealth(Registry, id).status = UNHEALTHY
        /\ ~canRequest(Registry, id, now).ret

C13_RegisterSource ==
    \A id \in ConfigIds, enabled \in BOOLEAN :
        LET source == [id |-> id, enabled |-> enabled]
            r1 == registerSource(Registry, source)
        IN  IF id \in Registered
            THEN r1 = Registry
            ELSE /\ DOMAIN r1.cb = Registered \cup {id}
                 /\ r1.cb[id] = [state |-> CLOSED, failureCount |-> 0,
                                 successCount |-> 0, nextAttemptTime |-> Null]
                 /\ r1.st[id] = [totalRequests |-> 0, totalFailures |-> 0,
                                 lastError |-> NullString, responseTimes |-> << >>]
                 /\ r1.sc[id] = source
                 /\ canRequest(r1, id, now).ret
                 /\ \A other \in Registered : Entry(r1, other) = Entry(Registry, other)

\* registerSource has just been called for a source whose breaker was
\* OPEN, and the breaker is OPEN with its totals
C13_Witness ==
    \E id \in Registered :
        /\ lastCall.kind = "lifecycle"
        /\ id \in Called
        /\ lastCall.before[id] = OPEN
        /\ circuitBreakers[id].state = OPEN
        /\ sourceStats[id].totalFailures >= failureThreshold

\* C14: in every reachable state the three maps have the same keys, and
\* unregisterSource(id) removes id from all three and leaves the other
\* entries: afterwards canRequest(id) is false, getSourceHealth(id) is null
\* and registerSource(id) installs a CLOSED breaker with zero statistics;
\* for an id that is not registered it leaves the registry as it is.
C14_UnregisterSource ==
    /\ DOMAIN circuitBreakers = DOMAIN sourceStats
    /\ DOMAIN circuitBreakers = DOMAIN sourceConfigs
    /\ \A id \in AllIds :
         LET r1 == unregisterSource(Registry, id)
             r2 == registerSource(r1, [id |-> id, enabled |-> TRUE])
         IN  /\ DOMAIN r1.cb = Registered \ {id}
             /\ DOMAIN r1.st = Registered \ {id}
             /\ DOMAIN r1.sc = Registered \ {id}
             /\ \A other \in Registered \ {id} : Entry(r1, other) = Entry(Registry, other)
             /\ ~canRequest(r1, id, now).ret
             /\ getSourceHealth(r1, id) = NullHealth
             /\ r2.cb[id] = [state |-> CLOSED, failureCount |-> 0,
                             successCount |-> 0, nextAttemptTime |-> Null]
             /\ r2.st[id] = [totalRequests |-> 0, totalFailures |-> 0,
                             lastError |-> NullString, responseTimes |-> << >>]
             /\ (id \notin Registered) => r1 = Registry

\* a source whose breaker was OPEN has just been unregistered while the
\* other source stays registered
C14_Witness ==
    \E id \in ConfigIds :
        /\ lastCall.kind = "lifecycle"
        /\ id \in Called
        /\ lastCall.before[id] = OPEN
        /\ id \notin Registered
        /\ Registered # {}

\* C15: in every reachable state, for every id that is not registered,
\* canRequest returns false and recordSuccess and recordFailure return
\* with the registry as it was and nothing emitted; and when the outcome of
\* a fetch has just been recorded for an id that was not registered at that
\* time, nothing was emitted and the id is still not registered.
C15_UnknownSource ==
    /\ \A id \in AllIds \ Registered :
         /\ canRequest(Registry, id, now) = [ret |-> FALSE, r |-> Registry]
         /\ \A responseTimeMs \in {Null, 0, TickMs} :
                SentinelService_recordSuccess(Registry, id, responseTimeMs, now)
                    = [r |-> Registry, events |-> << >>]
         /\ \A error \in Errors :
                SentinelService_recordFailure(Registry, id, error, now)
                    = [r |-> Registry, events |-> << >>]
    /\ \A id \in Called :
         (lastCall.kind \in {"recordSuccess", "recordFailure"}
          /\ lastCall.before[id] = "none")
            => emitted = << >> /\ id \notin Registered

\* two fetches of "a" were admitted, the configuration then dropped "a",
\* and the outcome of one of them has just arrived while the other is
\* still in flight
C15_Witness ==
    /\ lastCall.kind \in {"recordSuccess", "recordFailure"}
    /\ Called = {"a"}
    /\ lastCall.before["a"] = "none"
    /\ "a" \notin DOMAIN config
    /\ \E task \in BagToSet(inflight) : task.sourceId = "a" /\ task.admitted

\* the last n elements of seq, or all of seq when it has fewer
LastN(seq, n) ==
    IF Len(seq) <= n THEN seq ELSE SubSeq(seq, Len(seq) - n + 1, Len(seq))

\* C16: for a registered source, responseTimes is the sequence of the most
\* recent (up to 10) latencies passed to recordSuccess, in arrival order;
\* the reported average is their sum over their number, and null when no
\* latency was passed; recordFailure, and a recordSuccess that passes no
\* latency, leave the samples as they are.
C16_ResponseTimeRing ==
    \A id \in Registered :
        LET times == sourceStats[id].responseTimes
            recent == LastN(sampled[id], 10)
        IN  /\ Len(times) <= 10
            /\ times = recent
            /\ getSourceHealth(Registry, id).responseTimeMs =
                   (IF sampled[id] = << >> THEN Quotient(Null, 1)
                    ELSE Quotient(Sum(recent), Len(recent)))
            /\ \A error \in Errors :
                   SentinelService_recordFailure(Registry, id, error, now)
                       .r.st[id].responseTimes = times
            /\ SentinelService_recordSuccess(Registry, id, Null, now)
                   .r.st[id].responseTimes = times

\* more than 10 latencies were passed, the first was 2 ms and the later
\* ones 1 ms, a failure was recorded, and the average is 10 / 10
C16_Witness ==
    /\ "a" \in Registered
    /\ Len(sampled["a"]) > 10
    /\ sampled["a"][1] = 2
    /\ sourceStats["a"].totalFailures > 0
    /\ getSourceHealth(Registry, "a").responseTimeMs = Quotient(10, 10)

\* C17: when the last step recorded an outcome for a registered source,
\* the events it emitted are: for a success, source:healthy alone; for a
\* failure that leaves the breaker OPEN, source:unhealthy then
\* circuit:opened; for a failure that leaves it in another state,
\* source:degraded alone, with the failure count the breaker now has.
C17_RecordNotifications ==
    \A id \in Called :
        lastCall.before[id] # "none" =>
            /\ lastCall.kind = "recordSuccess" =>
                   emitted = << [type |-> "source:healthy", sourceId |-> id] >>
            /\ lastCall.kind = "recordFailure" =>
                   emitted =
                     (IF circuitBreakers[id].state = OPEN
                      THEN << [type |-> "source:unhealthy", sourceId |-> id],
                              [type |-> "circuit:opened", sourceId |-> id] >>
                      ELSE << [type |-> "source:degraded", sourceId |-> id,
                               failures |-> circuitBreakers[id].failureCount] >>)

\* a failed trial in HALF_OPEN, below the failure threshold, has just
\* announced the opening
C17_Witness ==
    \E id \in Called :
        /\ lastCall.kind = "recordFailure"
        /\ lastCall.before[id] = HALF_OPEN
        /\ circuitBreakers[id].failureCount < failureThreshold
        /\ Len(emitted) = 2
        /\ emitted[2].type = "circuit:opened"

\* C18: every registered source has 0 <= totalFailures <= totalRequests;
\* a source starts with both totals 0 when it is registered, an accepted
\* recordSuccess adds 1 to totalRequests, an accepted recordFailure adds 1
\* to both, and every other step (canRequest, the health queries,
\* resetSource, registration of a registered id, the clock) leaves both as
\* they are.
C18_Totals ==
    /\ [](\A id \in Registered :
             /\ 0 <= sourceStats[id].totalFailures
             /\ sourceStats[id].totalFailures <= sourceStats[id].totalRequests)
    /\ [][\A id \in DOMAIN sourceStats' :
             LET recorded(kind) == lastCall'.kind = kind /\ id \in DOMAIN lastCall'.before
                 requests == IF id \in Registered THEN sourceStats[id].totalRequests ELSE 0
                 failures == IF id \in Registered THEN sourceStats[id].totalFailures ELSE 0
             IN  /\ sourceStats'[id].totalRequests =
                        requests + (IF recorded("recordSuccess") \/ recorded("recordFailure")
                                    THEN 1 ELSE 0)
                 /\ sourceStats'[id].totalFailures =
                        failures + (IF recorded("recordFailure") THEN 1 ELSE 0)]_vars

\* a source that opened its circuit has just been reset and keeps totals
\* that include successes and failures
C18_Witness ==
    \E id \in Registered :
        /\ lastCall.kind = "resetSource"
        /\ id \in lastCall.ok
        /\ lastCall.before[id] = OPEN
        /\ sourceStats[id].totalFailures >= failureThreshold
        /\ sourceStats[id].totalRequests > sourceStats[id].totalFailures

\* C19: the reported uptime of a registered source is 100 when no request
\* was recorded and otherwise (totalRequests - totalFailures) /
\* totalRequests * 100: it is 0 when every recorded request failed, 100
\* when none failed, and between 0 and 100 in every case.
C19_Uptime ==
    \A id \in Registered :
        LET uptime == getSourceHealth(Registry, id).uptime
            requests == sourceStats[id].totalRequests
            failures == sourceStats[id].totalFailures
        IN  /\ uptime.den > 0
            /\ requests = 0 => uptime.num = 100 * uptime.den
            /\ requests > 0 =>
                   uptime.num * requests = (requests - failures) * 100 * uptime.den
            /\ (requests > 0 /\ failures = requests) => uptime.num = 0
            /\ failures = 0 => uptime.num = 100 * uptime.den
            /\ 0 <= uptime.num
            /\ uptime.num <= 100 * uptime.den

\* a report has just been requested for a source with successes and
\* failures recorded: its uptime is strictly between 0 and 100
C19_Witness ==
    \E id \in Registered :
        /\ lastCall.kind = "getSourceHealth"
        /\ id \in lastCall.ok
        /\ sourceStats[id].totalFailures > 0
        /\ getSourceHealth(Registry, id).uptime.num > 0
        /\ getSourceHealth(Registry, id).uptime.num
               < 100 * getSourceHealth(Registry, id).uptime.den

\* C20: the summary counts the registered sources, its healthy, degraded
\* and unhealthy counts are the numbers of CLOSED, HALF_OPEN and OPEN
\* breakers and add up to totalSources, and overallStatus is unhealthy
\* exactly when there is a source and every source is OPEN, degraded
\* exactly when some source is OPEN or HALF_OPEN but not all are OPEN, and
\* healthy otherwise, the empty registry included.
C20_HealthSummary ==
    LET summary == getHealthSummary(Registry)
        closed == {id \in Registered : circuitBreakers[id].state = CLOSED}
        halfOpen == {id \in Registered : circuitBreakers[id].state = HALF_OPEN}
        open == {id \in Registered : circuitBreakers[id].state = OPEN}
        allUnhealthy == Registered # {} /\ open = Registered
        someTrouble == open \cup halfOpen # {}
    IN  /\ summary.totalSources = Cardinality(Registered)
        /\ summary.healthySources = Cardinality(closed)
        /\ summary.degradedSources = Cardinality(halfOpen)
        /\ summary.unhealthySources = Cardinality(open)
        /\ summary.healthySources + summary.degradedSources
               + summary.unhealthySources = summary.totalSources
        /\ summary.overallStatus = UNHEALTHY <=> allUnhealthy
        /\ summary.overallStatus = DEGRADED <=> (someTrouble /\ ~allUnhealthy)
        /\ summary.overallStatus = HEALTHY <=> ~someTrouble
        /\ Registered = {} => summary.overallStatus = HEALTHY

\* the summary has just been requested with one source OPEN and the other
\* HALF_OPEN: one unhealthy, one degraded, overall degraded
C20_Witness ==
    /\ lastCall.kind = "getSourceHealth"
    /\ Called = {"a", "b"}
    /\ lastCall.before["a"] = OPEN
    /\ lastCall.before["b"] = HALF_OPEN
    /\ getHealthSummary(Registry).unhealthySources = 1
    /\ getHealthSummary(Registry).degradedSources = 1
    /\ getHealthSummary(Registry).overallStatus = DEGRADED

\* C21: the report for an OPEN breaker whose recovery time has elapsed
\* says HALF_OPEN and degraded, as a state getter that performs the lazy
\* OPEN to HALF_OPEN transition would have it.
C21_MetricsLazyGetter ==
    \A id \in Registered :
        (/\ circuitBreakers[id].state = OPEN
         /\ now >= circuitBreakers[id].nextAttemptTime)
        => /\ getMetrics(circuitBreakers[id]).state = HALF_OPEN
           /\ getSourceHealth(Registry, id).circuitState = HALF_OPEN
           /\ getSourceHealth(Registry, id).status = DEGRADED

\* the last step made a registry call of the given kind for id
JustCalled(kind, id) == lastCall.kind = kind /\ id \in Called

\* C22: with fetches of one source overlapping in any order, every
\* registry call acts on the state left by all the calls made before it
\* and is applied once: failureCount is the number of failures recorded
\* since the last success or reset; an accepted recordFailure adds 1 to
\* failureCount, totalRequests and totalFailures and zeroes successCount;
\* an accepted recordSuccess zeroes failureCount, adds 1 to totalRequests
\* only, and adds 1 to successCount unless it closes the circuit; and
\* canRequest returns what the state left by those calls prescribes at
\* the time of the call.
C22_AtomicRegistryCalls ==
    /\ [](\A id \in Registered : circuitBreakers[id].failureCount = failStreak[id])
    /\ [][\A id \in Registered \cap DOMAIN lastCall'.before :
             LET b0 == circuitBreakers[id]
                 b1 == circuitBreakers'[id]
                 s0 == sourceStats[id]
                 s1 == sourceStats'[id]
             IN  /\ lastCall'.kind = "recordFailure" =>
                        /\ b1.failureCount = b0.failureCount + 1
                        /\ b1.successCount = 0
                        /\ s1.totalRequests = s0.totalRequests + 1
                        /\ s1.totalFailures = s0.totalFailures + 1
                 /\ lastCall'.kind = "recordSuccess" =>
                        /\ b1.failureCount = 0
                        /\ b1.successCount =
                               (IF b0.state = HALF_OPEN /\ b1.state = CLOSED
                                THEN 0 ELSE b0.successCount + 1)
                        /\ s1.totalRequests = s0.totalRequests + 1
                        /\ s1.totalFailures = s0.totalFailures
                 /\ lastCall'.kind = "canRequest" =>
                        (id \in lastCall'.ok <=>
                            \/ b0.state \in {CLOSED, HALF_OPEN}
                            \/ b0.state = OPEN /\ now >= b0.nextAttemptTime)
                 /\ lastCall'.kind = "resetSource" =>
                        /\ b1.state = CLOSED
                        /\ canRequest(Registry', id, now').ret]_vars

\* the second of two overlapping fetches of "a" has just failed: both
\* failures are counted, a third fetch admitted earlier is still in flight
C22_Witness ==
    /\ JustCalled("recordFailure", "a")
    /\ "a" \in Registered
    /\ circuitBreakers["a"].failureCount >= 2
    /\ sourceStats["a"].totalFailures = circuitBreakers["a"].failureCount
    /\ \E task \in BagToSet(inflight) :
           task.sourceId = "a" /\ task.admitted /\ task.startTime < now

----------------------------------------------------------------------------
(***************************************************************************)
(* Strings of feed content.  A string the adapters read or produce is the  *)
(* sequence of its UTF-16 code units; a value that may be undefined is a   *)
(* record [some, s].                                                       *)
(***************************************************************************)

Absent == [some |-> FALSE, s |-> << >>]

Str(s) == [some |-> TRUE, s |-> s]

\* JavaScript truthiness of string | undefined
Truthy(x) == x.some /\ x.s # << >>

\* a || b on string | undefined
OrElse(a, b) == IF Truthy(a) THEN a ELSE b

\* 'Untitled'
Untitled == <<85, 110, 116, 105, 116, 108, 101, 100>>

\* decimal digits of a natural number, as String(n) writes them
RECURSIVE Decimal(_)
Decimal(n) ==
    IF n < 10 THEN << 48 + n >>
    ELSE Decimal(n \div 10) \o << 48 + (n % 10) >>

\* the four bytes of a signed 32-bit integer, lowest first
Bytes(x) ==
    << x % 256, (x \div 256) % 256, (x \div 65536) % 256, (x \div 16777216) % 256 >>

\* the signed 32-bit integer with bytes k0..k3 taken modulo 256, lowest first
Pack(k0, k1, k2, k3) ==
    (IF k3 % 256 >= 128 THEN (k3 % 256) - 256 ELSE k3 % 256) * 16777216
    + (k2 % 256) * 65536 + (k1 % 256) * 256 + (k0 % 256)

\* the carries of the column sums s0..s3 are passed upward, one column at a
\* time
CarryThird(k0, k1, k2, s3) == Pack(k0, k1, k2, (k2 \div 256) + s3)

CarrySecond(k0, k1, s2, s3) == CarryThird(k0, k1, (k1 \div 256) + s2, s3)

CarryFirst(s0, s1, s2, s3) == CarrySecond(s0, (s0 \div 256) + s1, s2, s3)

\* the product of the byte sequences a and b plus c, by columns
MulAddBytes(a, b, c) ==
    CarryFirst(a[1] * b[1] + c[1],
               a[1] * b[2] + a[2] * b[1] + c[2],
               a[1] * b[3] + a[2] * b[2] + a[3] * b[1] + c[3],
               a[1] * b[4] + a[2] * b[3] + a[3] * b[2] + a[4] * b[1] + c[4])

\* x * y + z reduced to a signed 32-bit integer (ToInt32), computed on bytes
MulAdd32(x, y, z) == MulAddBytes(Bytes(x), Bytes(y), Bytes(z))

\* the loop `hash = ((hash << 5) - hash) + char; hash = hash & hash` over
\* str[i..j], started from hash = 0, leaves the polynomial of the code units
\* in 31 reduced to 32 bits; it is evaluated by halves, [hash, power] being
\* the hash of the segment and 31 ^ length
RECURSIVE HashSegment(_, _, _)
HashSegment(str, i, j) ==
    IF i > j THEN [hash |-> 0, power |-> 1]
    ELSE IF i = j THEN [hash |-> MulAdd32(0, 31, str[i]), power |-> 31]
    ELSE LET m == (i + j) \div 2
             left == HashSegment(str, i, m)
             right == HashSegment(str, m + 1, j)
         IN  [hash |-> MulAdd32(left.hash, right.power, right.hash),
              power |-> MulAdd32(left.power, right.power, 0)]

\* `${prefix}${Math.abs(hash)}`
HashId(prefix, str) ==
    LET hash == HashSegment(str, 1, Len(str)).hash
    IN  prefix \o (IF hash = -2147483647 - 1
                   THEN << 50, 49, 52, 55, 52, 56, 51, 54, 52, 56 >>
                   ELSE Decimal(IF hash < 0 THEN -hash ELSE hash))

\* RSSAdapter.hashString
RSSAdapter_hashString(str) == HashId(<<104, 97, 115, 104, 45>>, str)

\* HTMLAdapter.hashString
HTMLAdapter_hashString(str) == HashId(<<104, 116, 109, 108, 45>>, str)

----------------------------------------------------------------------------
(***************************************************************************)
(* Parse results.  A NewsItem is kept by its id, title and link; the       *)
(* adapters return the list of the items they produced.                    *)
(***************************************************************************)

RSS == "rss"
ATOM == "atom"
JSON == "json"
HTML == "html"
UNKNOWN == "unknown"

\* variant: a failure without its message
Failure_noMessage(contentType, error) ==
    [success |-> FALSE, items |-> << >>, contentType |-> contentType,
     error |-> NullString, metadata |-> [title |-> Absent, link |-> Absent]]

\* ParseResult with success = false
Failure(contentType, error) ==
    [success |-> FALSE, items |-> << >>, contentType |-> contentType,
     error |-> error, metadata |-> [title |-> Absent, link |-> Absent]]

\* ParseResult with success = true
Success(contentType, items, metadata) ==
    [success |-> TRUE, items |-> items, contentType |-> contentType,
     error |-> NullString, metadata |-> metadata]

NewsItem(id, title, link) == [id |-> id, title |-> title, link |-> link]

\* the items pushed in a loop over the raw items: results holds, for each
\* raw item, << >> for null and << newsItem >> otherwise
RECURSIVE Concat(_)
Concat(results) ==
    IF Len(results) = 0 THEN << >>
    ELSE Head(results) \o Concat(Tail(results))

----------------------------------------------------------------------------
(***************************************************************************)
(* RSSAdapter.  The document is the tree XMLParser.parse returns: a raw    *)
(* RSS item is [guid, link, title], a raw Atom entry is [id, link, title]  *)
(* with links the list of its <link> elements [rel, href].                  *)
(***************************************************************************)

RSSAdapter_getString(value) == IF ~Truthy(value) THEN Absent ELSE value

parseRSSItem(item) ==
    LET link == RSSAdapter_getString(item.link)
        title == RSSAdapter_getString(item.title)
        id == OrElse(OrElse(RSSAdapter_getString(item.guid), link),
                     Str(RSSAdapter_hashString(OrElse(title, Str(<< >>)).s)))
    IN  IF ~Truthy(link) /\ ~Truthy(title) THEN << >>
        ELSE << NewsItem(id.s, OrElse(title, Str(Untitled)).s,
                         OrElse(link, Str(<< >>)).s) >>

\* linkArray.find(l => l['@_rel'] === 'alternate' || !l['@_rel'])
RECURSIVE FindAlternate(_)
FindAlternate(linkArray) ==
    IF linkArray = << >> THEN << >>
    ELSE IF Head(linkArray).rel \in {"alternate", ""}
         THEN << Head(linkArray) >>
         ELSE FindAlternate(Tail(linkArray))

getAtomLink(links) ==
    LET alternate == FindAlternate(links)
        link == IF alternate # << >> THEN alternate
                ELSE IF links # << >> THEN << Head(links) >> ELSE << >>
    IN  IF link # << >> THEN RSSAdapter_getString(link[1].href) ELSE Absent

parseAtomEntry(entry) ==
    LET link == getAtomLink(entry.links)
        title == RSSAdapter_getString(entry.title)
        id == OrElse(OrElse(RSSAdapter_getString(entry.id), link),
                     Str(RSSAdapter_hashString(OrElse(title, Str(<< >>)).s)))
    IN  IF ~Truthy(link) /\ ~Truthy(title) THEN << >>
        ELSE << NewsItem(id.s, OrElse(title, Str(Untitled)).s,
                         OrElse(link, Str(<< >>)).s) >>

parseRSS(channel) ==
    Success(RSS, Concat([i \in 1..Len(channel.item) |-> parseRSSItem(channel.item[i])]),
            [title |-> RSSAdapter_getString(channel.title),
             link |-> RSSAdapter_getString(channel.link)])

parseAtom(feed) ==
    Success(ATOM, Concat([i \in 1..Len(feed.entry) |-> parseAtomEntry(feed.entry[i])]),
            [title |-> RSSAdapter_getString(feed.title),
             link |-> getAtomLink(feed.links)])

----------------------------------------------------------------------------
(***************************************************************************)
(* JSONAdapter.  The document is the value JSON.parse returns: null, a     *)
(* string, a number, an array [elems] or an object [props], the list of    *)
(* its properties [k, v] in the order of the text.                         *)
(***************************************************************************)

JUndefined == [t |-> "undefined"]
JNull == [t |-> "null"]
JStr(s) == [t |-> "string", s |-> s]
JNum(n) == [t |-> "number", n |-> n]
JArr(elems) == [t |-> "array", elems |-> elems]
JObj(props) == [t |-> "object", props |-> props]

\* the code units of a property name
Utf16(k) ==
    CASE k = "id" -> <<105, 100>>
      [] k = "guid" -> <<103, 117, 105, 100>>
      [] k = "uuid" -> <<117, 117, 105, 100>>
      [] k = "link" -> <<108, 105, 110, 107>>
      [] k = "url" -> <<117, 114, 108>>
      [] k = "href" -> <<104, 114, 101, 102>>
      [] k = "permalink" -> <<112, 101, 114, 109, 97, 108, 105, 110, 107>>
      [] k = "title" -> <<116, 105, 116, 108, 101>>
      [] k = "name" -> <<110, 97, 109, 101>>
      [] k = "headline" -> <<104, 101, 97, 100, 108, 105, 110, 101>>
      [] k = "items" -> <<105, 116, 101, 109, 115>>
      [] k = "data" -> <<100, 97, 116, 97>>
      [] k = "entries" -> <<101, 110, 116, 114, 105, 101, 115>>
      [] k = "articles" -> <<97, 114, 116, 105, 99, 108, 101, 115>>
      [] k = "posts" -> <<112, 111, 115, 116, 115>>
      [] k = "news" -> <<110, 101, 119, 115>>
      [] k = "results" -> <<114, 101, 115, 117, 108, 116, 115>>
      [] k = "description" -> <<100, 101, 115, 99, 114, 105, 112, 116, 105, 111, 110>>
      [] k = "subtitle" -> <<115, 117, 98, 116, 105, 116, 108, 101>>
      [] k = "homepage" -> <<104, 111, 109, 101, 112, 97, 103, 101>>
      [] k = "views" -> <<118, 105, 101, 119, 115>>

\* value[key]
RECURSIVE Lookup(_, _)
Lookup(props, key) ==
    IF props = << >> THEN JUndefined
    ELSE IF Head(props).k = key THEN Head(props).v
         ELSE Lookup(Tail(props), key)

Get(value, key) ==
    IF value.t = "object" THEN Lookup(value.props, key) ELSE JUndefined

\* delete metadata[key]
RECURSIVE Delete(_, _)
Delete(props, key) ==
    IF props = << >> THEN << >>
    ELSE IF Head(props).k = key THEN Delete(Tail(props), key)
         ELSE << Head(props) >> \o Delete(Tail(props), key)

\* String(value)
RECURSIVE StringOf(_)
RECURSIVE JoinStrings(_)
JoinStrings(elems) ==
    IF elems = << >> THEN << >>
    ELSE (IF Head(elems).t \in {"null", "undefined"} THEN << >>
          ELSE StringOf(Head(elems)))
         \o (IF Tail(elems) = << >> THEN << >>
             ELSE << 44 >> \o JoinStrings(Tail(elems)))

StringOf(value) ==
    CASE value.t = "string" -> value.s
      [] value.t = "number" -> Decimal(value.n)
      [] value.t = "null" -> <<110, 117, 108, 108>>
      [] value.t = "undefined" -> <<117, 110, 100, 101, 102, 105, 110, 101, 100>>
      [] value.t = "array" -> JoinStrings(value.elems)
      [] value.t = "object" -> <<91, 111, 98, 106, 101, 99, 116, 32, 79, 98, 106, 101, 99, 116, 93>>

\* JSON.stringify(value)
RECURSIVE Stringify(_)
RECURSIVE StringifyElems(_)
RECURSIVE StringifyProps(_)
StringifyElems(elems) ==
    IF elems = << >> THEN << >>
    ELSE Stringify(Head(elems))
         \o (IF Tail(elems) = << >> THEN << >>
             ELSE << 44 >> \o StringifyElems(Tail(elems)))

StringifyProps(props) ==
    IF props = << >> THEN << >>
    ELSE << 34 >> \o Utf16(Head(props).k) \o << 34, 58 >> \o Stringify(Head(props).v)
         \o (IF Tail(props) = << >> THEN << >>
             ELSE << 44 >> \o StringifyProps(Tail(props)))

Stringify(value) ==
    CASE value.t = "string" -> << 34 >> \o value.s \o << 34 >>
      [] value.t = "number" -> Decimal(value.n)
      [] value.t = "null" -> <<110, 117, 108, 108>>
      [] value.t = "array" -> << 91 >> \o StringifyElems(value.elems) \o << 93 >>
      [] value.t = "object" -> << 123 >> \o StringifyProps(value.props) \o << 125 >>

\* JSONAdapter.getString(obj, keys)
RECURSIVE JSONAdapter_getString(_, _)
JSONAdapter_getString(obj, keys) ==
    IF keys = << >> THEN Absent
    ELSE LET value == Get(obj, Head(keys))
         IN  IF value.t \notin {"undefined", "null"}
             THEN IF value.t = "string" THEN Str(value.s)
                  ELSE IF value.t = "object" /\ Get(value, "url").t # "undefined"
                       THEN Str(StringOf(Get(value, "url")))
                       ELSE Str(StringOf(value))
             ELSE JSONAdapter_getString(obj, Tail(keys))

\* JSONAdapter.hashObject
hashObject(obj) == HashId(<<106, 115, 111, 110, 45>>, Stringify(obj))

mapToNewsItem(item) ==
    IF item.t # "object" /\ item.t # "array" THEN << >>
    ELSE LET link == JSONAdapter_getString(item, << "link", "url", "href", "permalink" >>)
             title == JSONAdapter_getString(item, << "title", "name", "headline" >>)
             id == OrElse(OrElse(JSONAdapter_getString(item, << "id", "guid", "uuid" >>),
                                 link),
                          Str(hashObject(item)))
         IN  IF ~Truthy(link) /\ ~Truthy(title) THEN << >>
             ELSE << NewsItem(id.s, OrElse(title, Str(Untitled)).s,
                              OrElse(link, Str(<< >>)).s) >>

arrayKeys == << "items", "data", "entries", "articles", "posts", "news", "results" >>

\* the loop over arrayKeys: << >> when no key holds an array, else
\* << [items, metadata] >> for the first key that does
RECURSIVE FindArrayKey(_, _)
FindArrayKey(parsed, keys) ==
    IF keys = << >> THEN << >>
    ELSE IF Get(parsed, Head(keys)).t = "array"
         THEN << [items |-> Get(parsed, Head(keys)).elems,
                  metadata |-> JObj(Delete(parsed.props, Head(keys)))] >>
         ELSE FindArrayKey(parsed, Tail(keys))

\* JSONAdapter.parse after JSON.parse(content) has returned parsed
JSONAdapter_parseValue(parsed) ==
    LET found == IF parsed.t = "object" THEN FindArrayKey(parsed, arrayKeys) ELSE << >>
        items0 == IF parsed.t = "array" THEN parsed.elems
                  ELSE IF found # << >> THEN found[1].items
                  ELSE << >>
        items == IF parsed.t = "object" /\ items0 = << >> THEN << parsed >> ELSE items0
        metadata == IF found # << >> THEN found[1].metadata ELSE JObj(<< >>)
    IN  Success(JSON, Concat([i \in 1..Len(items) |-> mapToNewsItem(items[i])]),
                [title |-> JSONAdapter_getString(metadata, << "title", "name" >>),
                 link |-> JSONAdapter_getString(metadata, << "link", "url", "homepage" >>)])

----------------------------------------------------------------------------
(***************************************************************************)
(* HTMLAdapter.  The document is the tree parseHTML returns, kept as the   *)
(* list of its candidate elements in document order: the selector pattern  *)
(* an element matches (cls), the href of its first a[href], the trimmed    *)
(* text of its heading and of that link.                                   *)
(***************************************************************************)

patterns == << "article", ".article", ".post", ".news-item", ".entry", ".item",
               "li.post", ".card", "[data-article]", ".story" >>

\* root.querySelectorAll(selector)
RECURSIVE querySelectorAll(_, _)
querySelectorAll(elements, selector) ==
    IF elements = << >> THEN << >>
    ELSE (IF Head(elements).cls = selector THEN << Head(elements) >> ELSE << >>)
         \o querySelectorAll(Tail(elements), selector)

\* HTMLAdapter.detectItemSelector: "" for null
RECURSIVE DetectFrom(_, _)
DetectFrom(elements, ps) ==
    IF ps = << >> THEN ""
    ELSE IF Len(querySelectorAll(elements, Head(ps))) >= 2 THEN Head(ps)
         ELSE DetectFrom(elements, Tail(ps))

detectItemSelector(elements) == DetectFrom(elements, patterns)

\* s.startsWith(prefix)
StartsWith(s, prefix) ==
    /\ Len(s) >= Len(prefix)
    /\ SubSeq(s, 1, Len(prefix)) = prefix

\* the base URL of the source, 'http://test.com'
BaseUrl == <<104, 116, 116, 112, 58, 47, 47, 116, 101, 115, 116, 46, 99, 111, 109>>

\* HTMLAdapter.resolveUrl for a URL that is empty, absolute, or a path
\* starting with '/', which new URL(url, baseUrl) appends to the origin
resolveUrl(url, baseUrl) ==
    IF url = << >> THEN << >>
    ELSE IF StartsWith(url, <<104, 116, 116, 112, 58, 47, 47>>) \/ StartsWith(url, <<104, 116, 116, 112, 115, 58, 47, 47>>) THEN url
    ELSE IF baseUrl # << >> THEN baseUrl \o url
    ELSE url

extractItem(element) ==
    LET link == OrElse(element.href, Str(<< >>)).s
        title == OrElse(OrElse(element.heading,
                               IF element.href.some THEN Str(element.linkText)
                               ELSE Absent),
                        Str(<< >>)).s
        id == HTMLAdapter_hashString(IF link # << >> THEN link ELSE title)
    IN  IF link = << >> /\ title = << >> THEN << >>
        ELSE << NewsItem(id, IF title # << >> THEN title ELSE Untitled,
                         resolveUrl(link, BaseUrl)) >>

\* HTMLAdapter.parse after parseHTML(content) has returned the elements;
\* selector is options.selector, "" when the source has none
HTMLAdapter_parseTree(elements, pageTitle, selector) ==
    LET sel == IF selector # "" THEN selector ELSE detectItemSelector(elements)
    IN  IF sel = ""
        THEN Failure(HTML, "No item selector provided or detected")
        ELSE LET found == querySelectorAll(elements, sel)
             IN  Success(HTML, Concat([i \in 1..Len(found) |-> extractItem(found[i])]),
                         [title |-> pageTitle, link |-> Absent])

----------------------------------------------------------------------------
(***************************************************************************)
(* UniversalParser.  A response body is kept by what the sniffing reads of *)
(* its text (how the trimmed text opens, which tags it includes) and by    *)
(* the tree its format's parser returns:                                   *)
(*   root "rss", "channel": channel;  root "feed": feed;                   *)
(*   root "array", "object": json;    root "html": page;                   *)
(*   root "other" (XML with another root element), "badjson" (text that    *)
(*   opens with a brace and is not JSON) and "text" have no tree.          *)
(* prolog: the text opens with an XML declaration.                         *)
(***************************************************************************)

\* how content.trim() opens (lower case)
Opening(content) ==
    IF content.prolog THEN "<?xml"
    ELSE CASE content.root = "rss" -> "<rss"
           [] content.root = "feed" -> "<feed"
           [] content.root = "channel" -> "<channel>"
           [] content.root = "other" -> "<invalid>"
           [] content.root = "array" -> "["
           [] content.root \in {"object", "badjson"} -> "{"
           [] content.root = "html" -> content.page.opening
           [] content.root = "text" -> "text"

\* the tags among '<rss', '<feed', '<channel>', '<body' the text includes
Tags(content) ==
    CASE content.root = "rss" -> {"<rss", "<channel>"}
      [] content.root = "feed" -> {"<feed"}
      [] content.root = "channel" -> {"<channel>"}
      [] content.root = "html" ->
            IF content.page.opening \in {"<!doctype", "<html", "<body"}
            THEN {"<body"} ELSE {}
      [] OTHER -> {}

\* no content-type header (undefined)
NoHeader == ""

\* the words among rss, atom, xml, json, html a content-type includes
Words(contentTypeHeader) ==
    CASE contentTypeHeader = "application/rss+xml" -> {"rss", "xml"}
      [] contentTypeHeader = "application/atom+xml" -> {"atom", "xml"}
      [] contentTypeHeader = "application/xml" -> {"xml"}
      [] contentTypeHeader = "application/json" -> {"json"}
      [] contentTypeHeader = "text/html" -> {"html"}
      [] contentTypeHeader = "application/xhtml+xml" -> {"html", "xml"}
      [] OTHER -> {}

\* variant: the content is sniffed whatever the header says
detectContentType_sniffOnly(content, contentTypeHeader) ==
    IF Opening(content) \in {"<?xml", "<rss", "<feed"}
    THEN (IF "<feed" \in Tags(content) THEN ATOM ELSE RSS)
    ELSE IF Opening(content) \in {"[", "{"} THEN JSON
    ELSE IF Opening(content) \in {"<!doctype", "<html"} THEN HTML
    ELSE UNKNOWN

detectContentType(content, contentTypeHeader) ==
    LET lower == Words(contentTypeHeader)
    IN  IF contentTypeHeader # NoHeader /\ ("rss" \in lower \/ "atom" \in lower) THEN RSS
        ELSE IF contentTypeHeader # NoHeader /\ "json" \in lower THEN JSON
        ELSE IF contentTypeHeader # NoHeader /\ "html" \in lower THEN HTML
        ELSE IF contentTypeHeader # NoHeader /\ "xml" \in lower
             THEN (IF "<feed" \in Tags(content) THEN ATOM ELSE RSS)
        ELSE IF Opening(content) \in {"<?xml", "<rss", "<feed"}
             THEN (IF "<feed" \in Tags(content) THEN ATOM ELSE RSS)
        ELSE IF Opening(content) \in {"[", "{"} THEN JSON
        ELSE IF Opening(content) \in {"<!doctype", "<html"} THEN HTML
        ELSE UNKNOWN

RSSAdapter_canParse(content, contentType) ==
    \/ contentType # NoHeader /\ Words(contentType) \cap {"rss", "atom", "xml"} # {}
    \/ Opening(content) = "<?xml"
    \/ Tags(content) \cap {"<rss", "<feed", "<channel>"} # {}

JSONAdapter_canParse(content, contentType) ==
    \/ "json" \in Words(contentType)
    \/ Opening(content) \in {"[", "{"}

HTMLAdapter_canParse(content, contentType) ==
    \/ "html" \in Words(contentType)
    \/ Opening(content) \in {"<!doctype", "<html"}
    \/ "<body" \in Tags(content)

\* RSSAdapter.parse: XMLParser.parse returns a tree for any text
RSSAdapter_parse(content) ==
    CASE content.root = "rss" -> parseRSS(content.channel)
      [] content.root = "feed" -> parseAtom(content.feed)
      [] content.root = "channel" -> parseRSS(content.channel)
      [] OTHER -> Failure(UNKNOWN, "Unable to detect RSS/Atom structure")

\* JSONAdapter.parse: JSON.parse throws a SyntaxError for text that is not
\* JSON
JSONAdapter_parse(content) ==
    IF content.root \in {"array", "object"}
    THEN JSONAdapter_parseValue(content.json)
    ELSE Failure(JSON, "Unexpected token in JSON")

\* HTMLAdapter.parse: parseHTML returns a tree for any text, without one of
\* the candidate elements when the text is not HTML
HTMLAdapter_parse(content, selector) ==
    IF content.root = "html"
    THEN HTMLAdapter_parseTree(content.page.elements, content.page.title, selector)
    ELSE HTMLAdapter_parseTree(<< >>, Absent, selector)

\* this.adapters
adapters == << "RSSAdapter", "JSONAdapter", "HTMLAdapter" >>

supportedTypes(adapter) ==
    CASE adapter = "RSSAdapter" -> {RSS, ATOM}
      [] adapter = "JSONAdapter" -> {JSON}
      [] adapter = "HTMLAdapter" -> {HTML}

canParse(adapter, content, contentTypeHeader) ==
    CASE adapter = "RSSAdapter" -> RSSAdapter_canParse(content, contentTypeHeader)
      [] adapter = "JSONAdapter" -> JSONAdapter_canParse(content, contentTypeHeader)
      [] adapter = "HTMLAdapter" -> HTMLAdapter_canParse(content, contentTypeHeader)

\* no adapter (null)
NoAdapter == "null"

\* the first adapter in the order of this.adapters whose test holds,
\* tests[i] being the outcome of the test for adapters[i]; NoAdapter if none
FirstAdapter(tests) ==
    IF \E i \in 1..Len(adapters) : tests[i]
    THEN adapters[CHOOSE i \in 1..Len(adapters) :
                      tests[i] /\ \A j \in 1..(i - 1) : ~tests[j]]
    ELSE NoAdapter

\* variant: the adapter of the detected type is taken without asking it
findAdapter_byTypeOnly(content, detectedType, contentTypeHeader) ==
    LET first == FirstAdapter([i \in 1..Len(adapters) |->
                                  detectedType \in supportedTypes(adapters[i])])
    IN  IF first # NoAdapter THEN first
        ELSE FirstAdapter([i \in 1..Len(adapters) |->
                              canParse(adapters[i], content, contentTypeHeader)])

findAdapter(content, detectedType, contentTypeHeader) ==
    LET first == FirstAdapter([i \in 1..Len(adapters) |->
                                  /\ detectedType \in supportedTypes(adapters[i])
                                  /\ canParse(adapters[i], content, contentTypeHeader)])
    IN  IF first # NoAdapter THEN first
        ELSE FirstAdapter([i \in 1..Len(adapters) |->
                              canParse(adapters[i], content, contentTypeHeader)])

\* `No adapter found for content type: ${contentType}`
NoAdapterError(contentType) ==
    CASE contentType = RSS -> "No adapter found for content type: rss"
      [] contentType = ATOM -> "No adapter found for content type: atom"
      [] contentType = JSON -> "No adapter found for content type: json"
      [] contentType = HTML -> "No adapter found for content type: html"
      [] contentType = UNKNOWN -> "No adapter found for content type: unknown"

\* variant: without an adapter the content is reported as an empty feed
parse_emptyFeed(content, source, contentTypeHeader) ==
    LET contentType == IF source.type = "auto"
                       THEN detectContentType(content, contentTypeHeader)
                       ELSE source.type
        adapter == findAdapter(content, contentType, contentTypeHeader)
    IN  CASE adapter = NoAdapter ->
                Success(contentType, << >>, [title |-> Absent, link |-> Absent])
          [] adapter = "RSSAdapter" -> RSSAdapter_parse(content)
          [] adapter = "JSONAdapter" -> JSONAdapter_parse(content)
          [] adapter = "HTMLAdapter" -> HTMLAdapter_parse(content, source.selector)

\* UniversalParser.parse
parse(content, source, contentTypeHeader) ==
    LET contentType == IF source.type = "auto"
                       THEN detectContentType(content, contentTypeHeader)
                       ELSE source.type
        adapter == findAdapter(content, contentType, contentTypeHeader)
    IN  CASE adapter = NoAdapter -> Failure(UNKNOWN, NoAdapterError(contentType))
          [] adapter = "RSSAdapter" -> RSSAdapter_parse(content)
          [] adapter = "JSONAdapter" -> JSONAdapter_parse(content)
          [] adapter = "HTMLAdapter" -> HTMLAdapter_parse(content, source.selector)

----------------------------------------------------------------------------
(***************************************************************************)
(* Calls of UniversalParser.parse on bounded sets of documents.            *)
(***************************************************************************)

\* all sequences over S of length at most n
SeqsUpTo(S, n) == UNION { [1..k -> S] : k \in 0..n }

\* values of an XML text node: none, empty, or a one-letter text
XmlValues(char) == {Absent, Str(<< >>), Str(<< char >>)}

\* the path '/1'
Path == << 47, 49 >>

RssItems == [guid : XmlValues(103), link : {Absent, Str(<< >>), Str(Path)},
             title : XmlValues(97)]

AtomLinks ==
    { << >>,
      << [rel |-> "", href |-> Str(Path)] >>,
      << [rel |-> "self", href |-> Str(Path)] >>,
      << [rel |-> "alternate", href |-> Absent] >> }

AtomEntries == [id : {Absent, Str(<< 103 >>)}, links : AtomLinks, title : XmlValues(97)]

\* the property k with value v, when present
Prop(k, present, v) == IF present THEN << [k |-> k, v |-> v] >> ELSE << >>

\* objects with any of id, title, link, in that order
PlainObjects ==
    { JObj(Prop("id", id, JStr(<< 103 >>))
           \o Prop("title", title # Absent, JStr(title.s))
           \o Prop("link", link # Absent, JStr(link.s))) :
        id \in BOOLEAN, title \in XmlValues(97),
        link \in {Absent, Str(<< >>), Str(Path)} }

\* objects that name their title or link by a fallback key (name, url),
\* alone or after an empty or null value under the first key
FallbackObjects ==
    { JObj(<< [k |-> "name", v |-> JStr(<< 110 >>)] >>),
      JObj(<< [k |-> "url", v |-> JStr(<< 47, 50 >>)] >>),
      JObj(<< [k |-> "title", v |-> JStr(<< >>)], [k |-> "name", v |-> JStr(<< 110 >>)] >>),
      JObj(<< [k |-> "link", v |-> JStr(<< >>)], [k |-> "url", v |-> JStr(<< 47, 50 >>)] >>),
      JObj(<< [k |-> "link", v |-> JNull], [k |-> "url", v |-> JStr(<< 47, 50 >>)] >>) }

JsonObjects == PlainObjects \cup FallbackObjects

\* two objects with the same title that differ in another field
CountedObjects ==
    { JObj(<< [k |-> "title", v |-> JStr(<< 97 >>)], [k |-> "views", v |-> JNum(n)] >>) :
        n \in {1, 2} }

\* elements of a JSON array: the objects above, null and a number
JsonElements == JsonObjects \cup CountedObjects \cup {JNull, JNum(7)}

\* an object that wraps arrays under the keys items and data, with or
\* without a title of its own
WrappedArrays == {JArr(elems) : elems \in SeqsUpTo(CountedObjects, 1)} \cup {JStr(<< 120 >>)}

JsonWrappers ==
    { JObj(Prop("title", title, JStr(<< 70 >>))
           \o Prop("data", data # JNull, data)
           \o Prop("items", items # JNull, items)) :
        title \in BOOLEAN,
        data \in WrappedArrays \cup {JNull},
        items \in WrappedArrays \cup {JNull} }

HtmlElements ==
    [cls : {"article", ".post"}, href : {Absent, Str(<< >>), Str(Path)},
     heading : {Absent, Str(<< 97 >>)}, linkText : {<< >>, << 108 >>}]

\* documents with every combination of item fields
FeedContents ==
    { [root |-> "rss", prolog |-> FALSE,
       channel |-> [title |-> Str(<< 70 >>), link |-> Absent, item |-> item]] :
        item \in SeqsUpTo(RssItems, MaxItems) }
    \cup
    { [root |-> "feed", prolog |-> FALSE,
       feed |-> [title |-> Str(<< 70 >>), links |-> << >>, entry |-> entry]] :
        entry \in SeqsUpTo(AtomEntries, MaxItems) }
    \cup
    { [root |-> "array", prolog |-> FALSE, json |-> JArr(elems)] :
        elems \in SeqsUpTo(JsonElements, MaxItems) }
    \cup
    { [root |-> "object", prolog |-> FALSE, json |-> json] : json \in JsonWrappers }
    \cup
    { [root |-> "html", prolog |-> FALSE,
       page |-> [opening |-> "<html", title |-> Absent, elements |-> elements]] :
        elements \in SeqsUpTo(HtmlElements, MaxItems) }

\* one item, entry, object and element with a title and a link
SampleItem == [guid |-> Absent, link |-> Str(Path), title |-> Str(<< 97 >>)]
SampleEntry == [id |-> Str(<< 103 >>), links |-> << [rel |-> "", href |-> Str(Path)] >>,
                title |-> Str(<< 97 >>)]
SampleObject == JObj(<< [k |-> "title", v |-> JStr(<< 97 >>)] >>)
SampleElement == [cls |-> ".post", href |-> Str(Path), heading |-> Str(<< 97 >>),
                  linkText |-> << >>]

\* documents of every shape the sniffing tells apart
SniffContents ==
    { [root |-> root, prolog |-> prolog,
       channel |-> [title |-> Absent, link |-> Absent, item |-> item]] :
        root \in {"rss", "channel"}, prolog \in BOOLEAN,
        item \in SeqsUpTo({SampleItem}, 1) }
    \cup
    { [root |-> "feed", prolog |-> prolog,
       feed |-> [title |-> Absent, links |-> << >>, entry |-> entry]] :
        prolog \in BOOLEAN, entry \in SeqsUpTo({SampleEntry}, 1) }
    \cup
    { [root |-> "other", prolog |-> prolog] : prolog \in BOOLEAN }
    \cup
    { [root |-> "array", prolog |-> FALSE, json |-> JArr(elems)] :
        elems \in SeqsUpTo({SampleObject}, 1) }
    \cup
    { [root |-> "object", prolog |-> FALSE, json |-> SampleObject],
      [root |-> "badjson", prolog |-> FALSE],
      [root |-> "text", prolog |-> FALSE] }
    \cup
    { [root |-> "html", prolog |-> FALSE,
       page |-> [opening |-> opening, title |-> Absent, elements |-> elements]] :
        opening \in {"<!doctype", "<html", "<body", "<div"},
        elements \in {<< >>, << SampleElement, SampleElement >>} }

Headers == {NoHeader, "application/rss+xml", "application/atom+xml", "application/xml",
            "application/json", "text/html", "application/xhtml+xml", "text/plain"}

\* SourceConfigSchema: type and selector
SourceTypes == {"auto", RSS, ATOM, JSON, HTML}
Selectors == {"", ".post"}

\* no value has been returned
NoResult == [success |-> FALSE, items |-> << >>, contentType |-> "",
             error |-> "", metadata |-> [title |-> Absent, link |-> Absent]]

\* parse has been called with these arguments
ParseCalled(content, source, contentTypeHeader) ==
    [pc |-> "called", content |-> content, source |-> source,
     contentTypeHeader |-> contentTypeHeader, contentType |-> "",
     adapter |-> NoAdapter, result |-> NoResult]

\* parse up to `await adapter.parse(...)`: the type is determined and the
\* adapter looked for; without one the failure is returned
FindAdapter ==
    /\ parseCall.pc = "called"
    /\ LET contentType == IF parseCall.source.type = "auto"
                          THEN detectContentType(parseCall.content,
                                                 parseCall.contentTypeHeader)
                          ELSE parseCall.source.type
           adapter == findAdapter(parseCall.content, contentType,
                                  parseCall.contentTypeHeader)
       IN  parseCall' =
               [parseCall EXCEPT
                  !.pc = IF adapter = NoAdapter THEN "returned" ELSE "parsing",
                  !.contentType = contentType,
                  !.adapter = adapter,
                  !.result = IF adapter = NoAdapter
                             THEN parse(parseCall.content, parseCall.source,
                                        parseCall.contentTypeHeader)
                             ELSE @]
    /\ RegistryUntouched
    /\ UNCHANGED <<now, started, remote, config, inflight, fetchCall, toolCall, loader>>

\* the adapter's parse returns and parse returns its result
AdapterReturns ==
    /\ parseCall.pc = "parsing"
    /\ parseCall' =
           [parseCall EXCEPT
              !.pc = "returned",
              !.result = parse(parseCall.content, parseCall.source,
                               parseCall.contentTypeHeader)]
    /\ RegistryUntouched
    /\ UNCHANGED <<now, started, remote, config, inflight, fetchCall, toolCall, loader>>

NextParse == FindAdapter \/ AdapterReturns

\* parse is called on a document of any shape, with any content-type
\* header, for a source of any type
InitParse ==
    /\ InitServer(FALSE)
    /\ fetchCall = NoFetchCall
    /\ toolCall = NoToolCall
    /\ loader = NoLoader
    /\ \E content \in SniffContents, type \in SourceTypes, selector \in Selectors,
          contentTypeHeader \in Headers :
         parseCall = ParseCalled(content, [type |-> type, selector |-> selector],
                                 contentTypeHeader)

SpecParse == InitParse /\ [][NextParse]_vars

\* parse is called on a feed with any items, for an auto-typed source
\* without selector and without a content-type header
InitAdapters ==
    /\ InitServer(FALSE)
    /\ fetchCall = NoFetchCall
    /\ toolCall = NoToolCall
    /\ loader = NoLoader
    /\ \E content \in FeedContents :
         parseCall = ParseCalled(content, [type |-> "auto", selector |-> ""], NoHeader)

SpecAdapters == InitAdapters /\ [][NextParse]_vars

----------------------------------------------------------------------------
(***************************************************************************)
(* UniversalParser.fetchAndParse.  The call waits at `await fetch(...)`    *)
(* (pc "fetch") for the response headers and at `await response.text()`    *)
(* (pc "text") for the body; the abort timer is armed from setTimeout      *)
(* until it fires or clearTimeout runs.  The source decides whether and    *)
(* when headers and body arrive.                                           *)
(***************************************************************************)

\* config.requestTimeoutMs: the value of the test configuration and the
\* schema's default
RequestTimeouts == {FetchTickMs, 2 * FetchTickMs}

\* the source fetched: auto-typed, without selector
FetchedSource == [type |-> "auto", selector |-> ""]

\* const startTime = Date.now(); setTimeout(() => controller.abort(),
\* timeoutMs); await fetch(...)
Fetching(timeoutMs, t) ==
    [pc |-> "fetch", startTime |-> t, timeoutMs |-> timeoutMs, timer |-> TRUE,
     result |-> NoResult, responseTimeMs |-> Null, returnedAt |-> Null]

\* return { result, responseTimeMs } with responseTimeMs = Date.now() -
\* startTime
Returned(call, result, t) ==
    [call EXCEPT !.pc = "returned", !.result = result,
                 !.responseTimeMs = t - call.startTime, !.returnedAt = t]

\* variant: the error is passed on to the caller
Caught_rethrows(call, message, t) ==
    [call EXCEPT !.pc = "threw", !.returnedAt = t]

\* the catch block
Caught(call, message, t) == Returned(call, Failure(UNKNOWN, message), t)

Pending == fetchCall.pc \in {"fetch", "text"}

Deadline == fetchCall.startTime + fetchCall.timeoutMs

\* the steps of fetchAndParse touch nothing of the server
FetchFrame ==
    /\ RegistryUntouched
    /\ UNCHANGED <<started, remote, config, inflight, parseCall, toolCall, loader>>

FetchAndParse(timeoutMs) ==
    /\ fetchCall.pc = "idle"
    /\ now + timeoutMs <= MaxClockTicks * FetchTickMs
    /\ fetchCall' = Fetching(timeoutMs, now)
    /\ FetchFrame
    /\ UNCHANGED now

\* fetch() resolves with the response headers: clearTimeout(timeout), then
\* `if (!response.ok) throw`
ResponseArrives(ok) ==
    /\ fetchCall.pc = "fetch"
    /\ fetchCall' =
           IF ok THEN [fetchCall EXCEPT !.pc = "text", !.timer = FALSE]
           ELSE Caught([fetchCall EXCEPT !.timer = FALSE],
                       "HTTP 500: Internal Server Error", now)
    /\ FetchFrame
    /\ UNCHANGED now

\* fetch() rejects: DNS failure, refused or reset connection
FetchRejects ==
    /\ fetchCall.pc = "fetch"
    /\ fetchCall' = Caught(fetchCall, "fetch failed", now)
    /\ FetchFrame
    /\ UNCHANGED now

\* the timer set by setTimeout fires: controller.abort(), which rejects a
\* pending fetch() and does nothing once the call has returned
TimerFires ==
    /\ fetchCall.pc \in {"fetch", "text", "returned"}
    /\ fetchCall.timer
    /\ now >= Deadline
    /\ fetchCall' =
           IF fetchCall.pc = "returned" THEN [fetchCall EXCEPT !.timer = FALSE]
           ELSE Caught([fetchCall EXCEPT !.timer = FALSE],
                       "This operation was aborted", now)
    /\ FetchFrame
    /\ UNCHANGED now

\* response.text() resolves with the body; parse(content, source,
\* contentTypeHeader) is awaited and its result returned
BodyArrives(content, contentTypeHeader) ==
    /\ fetchCall.pc = "text"
    /\ fetchCall' = Returned(fetchCall,
                             parse(content, FetchedSource, contentTypeHeader), now)
    /\ FetchFrame
    /\ UNCHANGED now

\* response.text() rejects: the connection breaks while the body is read
BodyFails ==
    /\ fetchCall.pc = "text"
    /\ fetchCall' = Caught(fetchCall, "terminated", now)
    /\ FetchFrame
    /\ UNCHANGED now

\* the clock advances; a timer that is due fires before it advances further
FetchTick ==
    /\ now < MaxClockTicks * FetchTickMs
    /\ ~(fetchCall.pc # "idle" /\ fetchCall.timer /\ now >= Deadline)
    /\ now' = now + FetchTickMs
    /\ FetchFrame
    /\ UNCHANGED fetchCall

NextFetch ==
    \/ \E timeoutMs \in RequestTimeouts : FetchAndParse(timeoutMs)
    \/ \E ok \in BOOLEAN : ResponseArrives(ok)
    \/ FetchRejects
    \/ TimerFires
    \/ \E content \in SniffContents, contentTypeHeader \in Headers :
          BodyArrives(content, contentTypeHeader)
    \/ BodyFails
    \/ FetchTick

InitFetch ==
    /\ InitServer(FALSE)
    /\ fetchCall = NoFetchCall
    /\ parseCall = NoParseCall
    /\ toolCall = NoToolCall
    /\ loader = NoLoader

SpecFetch == InitFetch /\ [][NextFetch]_vars

\* timers fire and time passes; nothing obliges the source to answer
SpecFetchLive ==
    /\ InitFetch
    /\ [][NextFetch]_vars
    /\ WF_vars(FetchTick)
    /\ WF_vars(TimerFires)

----------------------------------------------------------------------------
(***************************************************************************)
(* Requests that fan out over two sources.  fetchAndParse returns the      *)
(* message of the error it caught, which may be empty; each handler        *)
(* passes `result.error || <fallback>` to recordFailure.                   *)
(***************************************************************************)

\* messages of the errors fetchAndParse catches: an HTTP status, the abort
\* on timeout, and an Error without message
FetchErrors == {"HTTP 500: Internal Server Error", "This operation was aborted", ""}

\* the fallback reasons of fetch-news, news://all and news://source/{id}
FallbackReasons == {"Unknown error", "Unknown parsing error", "Parse error"}

\* variant: a failed fetch is dropped without telling the registry
FailedFetch_silent(task, error) ==
    /\ BagIn(task, inflight)
    /\ Recordable(task.sourceId)
    /\ NoRegistryCall
    /\ inflight' = inflight (-) SetToBag({task})
    /\ UNCHANGED <<now, started, remote, config>>

\* the else branch of the three handlers: result.success is false and
\* result.error is the message error
FailedFetch(task, error) ==
    \E reason \in (IF error = "" THEN FallbackReasons ELSE {error}) :
        CompleteFailure(task, reason)

\* the outcomes recorded so far, over all sources, are fewer than the bound
WithinFanoutBudget ==
    TotalRequests(sourceStats, DOMAIN sourceStats) < MaxFanoutRequests

NextFanout ==
    \/ Start(ConfigIds)
    \/ Tick
    \/ FetchNews("*")
    \/ NewsAll
    \/ \E sourceId \in ConfigIds : NewsSource(sourceId)
    \/ /\ WithinFanoutBudget
       /\ \E task \in BagToSet(inflight) : CompleteSuccess(task)
    \/ /\ WithinFanoutBudget
       /\ \E task \in BagToSet(inflight), error \in FetchErrors : FailedFetch(task, error)

SpecFanout == Init /\ [][NextFanout]_vars

C24_FetchAndParseReturns ==
    /\ [](fetchCall.pc # "threw")
    /\ [](fetchCall.pc = "returned" =>
            fetchCall.responseTimeMs = fetchCall.returnedAt - fetchCall.startTime)
    /\ [][fetchCall' # fetchCall =>
            /\ lastCall'.kind = "none"
            /\ UNCHANGED <<circuitBreakers, sourceStats, sourceConfigs>>
            /\ (fetchCall.pc = "fetch" /\ fetchCall'.pc \notin {"fetch", "text"}) =>
                   /\ fetchCall'.pc = "returned"
                   /\ fetchCall'.returnedAt = now
                   /\ ~fetchCall'.result.success
                   /\ fetchCall'.result.items = << >>
                   /\ fetchCall'.result.contentType = UNKNOWN
                   /\ fetchCall'.result.error \notin {"", NullString}]_vars

\* a fetch that got no response was aborted by its timer and returned the
\* failure with the elapsed time; another returned a parsed feed later
\* than it started
C24_Witness ==
    /\ fetchCall.pc = "returned"
    /\ fetchCall.result.error = "This operation was aborted"
    /\ fetchCall.timeoutMs = 2 * FetchTickMs
    /\ fetchCall.responseTimeMs = 2 * FetchTickMs

\* C25: every call of fetchAndParse returns, and none is still waiting,
\* for the headers or for the body, once timeoutMs have passed since it
\* started.
C25_FetchBounded ==
    /\ Pending ~> ~Pending
    /\ [](Pending => now <= Deadline)

\* the positions in this.adapters of the adapters whose canParse accepts
\* the content of the call
Accepting ==
    {i \in DOMAIN adapters :
        canParse(adapters[i], parseCall.content, parseCall.contentTypeHeader)}

\* those among them that support the type determined for the call
Matching == {i \in Accepting : parseCall.contentType \in supportedTypes(adapters[i])}

First(S) == adapters[CHOOSE i \in S : \A j \in S : i <= j]

\* C26: with the adapters in the order RSS/Atom, JSON, HTML, the adapter
\* parse selects is the first that supports the determined type and
\* accepts the content, else the first that accepts the content, else
\* none; so a selected adapter accepts the content, and parse fails for
\* want of an adapter exactly when no adapter accepts it.
C26_FindAdapter ==
    /\ adapters = << "RSSAdapter", "JSONAdapter", "HTMLAdapter" >>
    /\ parseCall.pc \in {"parsing", "returned"} =>
          /\ parseCall.adapter = (IF Matching # {} THEN First(Matching)
                                  ELSE IF Accepting # {} THEN First(Accepting)
                                  ELSE NoAdapter)
          /\ parseCall.adapter # NoAdapter =>
                 canParse(parseCall.adapter, parseCall.content,
                          parseCall.contentTypeHeader)
          /\ parseCall.adapter = NoAdapter <=> Accepting = {}
          /\ parseCall.pc = "returned" =>
                 (parseCall.result.error = NoAdapterError(parseCall.contentType)
                     <=> Accepting = {})

\* a source declared as html delivers an RSS document without a content
\* type: no adapter both supports html and accepts the content, and the
\* second pass selects the RSS adapter
C26_Witness ==
    /\ parseCall.pc = "parsing"
    /\ parseCall.source.type = HTML
    /\ parseCall.content.root = "rss"
    /\ parseCall.contentTypeHeader = NoHeader
    /\ Matching = {}
    /\ parseCall.adapter = "RSSAdapter"

\* C27: when no adapter accepts the content, parse returns success =
\* false, no items, contentType UNKNOWN and an error message.
C27_NoAdapter ==
    (parseCall.pc # "called" /\ Accepting = {}) =>
        /\ parseCall.pc = "returned"
        /\ ~parseCall.result.success
        /\ parseCall.result.items = << >>
        /\ parseCall.result.contentType = UNKNOWN
        /\ parseCall.result.error \notin {"", NullString}

\* parse has returned for an XML document whose root is neither rss, feed
\* nor channel, without XML declaration and content type, from an
\* auto-typed source
C27_Witness ==
    /\ parseCall.pc = "returned"
    /\ parseCall.content.root = "other"
    /\ ~parseCall.content.prolog
    /\ parseCall.contentTypeHeader = NoHeader
    /\ parseCall.source.type = "auto"
    /\ parseCall.result.error = "No adapter found for content type: unknown"

----------------------------------------------------------------------------
(***************************************************************************)
(* Per-item normalization, read off the document the call was given.       *)
(***************************************************************************)

\* the adapter found the items of the document: an RSS channel, an Atom
\* feed, a JSON array, or an HTML page on which an item selector is detected
Understood ==
    \/ parseCall.content.root \in {"rss", "feed", "array"}
    \/ /\ parseCall.content.root = "html"
       /\ detectItemSelector(parseCall.content.page.elements) # ""

\* the raw items of the document, in document order
RawItems ==
    CASE parseCall.content.root = "rss" -> parseCall.content.channel.item
      [] parseCall.content.root = "feed" -> parseCall.content.feed.entry
      [] parseCall.content.root = "array" -> parseCall.content.json.elems
      [] parseCall.content.root = "html" ->
           querySelectorAll(parseCall.content.page.elements,
                            detectItemSelector(parseCall.content.page.elements))
      [] OTHER -> << >>

\* the native identifier, the link and the title a raw item holds
NativeId(raw) ==
    CASE parseCall.content.root = "rss" -> RSSAdapter_getString(raw.guid)
      [] parseCall.content.root = "feed" -> RSSAdapter_getString(raw.id)
      [] parseCall.content.root = "array" ->
           JSONAdapter_getString(raw, << "id", "guid", "uuid" >>)
      [] OTHER -> Absent

LinkOf(raw) ==
    CASE parseCall.content.root = "rss" -> RSSAdapter_getString(raw.link)
      [] parseCall.content.root = "feed" -> getAtomLink(raw.links)
      [] parseCall.content.root = "array" ->
           JSONAdapter_getString(raw, << "link", "url", "href", "permalink" >>)
      [] OTHER -> raw.href

TitleOf(raw) ==
    CASE parseCall.content.root = "rss" -> RSSAdapter_getString(raw.title)
      [] parseCall.content.root = "feed" -> RSSAdapter_getString(raw.title)
      [] parseCall.content.root = "array" ->
           JSONAdapter_getString(raw, << "title", "name", "headline" >>)
      [] OTHER -> OrElse(raw.heading,
                         IF raw.href.some THEN Str(raw.linkText) ELSE Absent)

\* the hash of a title under the prefix the adapter gives its hashed ids
TitleHash(title) ==
    CASE parseCall.content.root = "array" -> HashId(<<106, 115, 111, 110, 45>>, title)
      [] parseCall.content.root = "html" -> HTMLAdapter_hashString(title)
      [] OTHER -> RSSAdapter_hashString(title)

\* the id and title of the NewsItem the normalization contract gives a raw
\* item: none without link and title, else the native identifier, else the
\* link, else the hash of the title
Normalized(raw) ==
    IF ~Truthy(LinkOf(raw)) /\ ~Truthy(TitleOf(raw)) THEN << >>
    ELSE << [id |-> OrElse(OrElse(NativeId(raw), LinkOf(raw)),
                           Str(TitleHash(OrElse(TitleOf(raw), Str(<< >>)).s))).s,
             title |-> OrElse(TitleOf(raw), Str(Untitled)).s] >>

\* the id and title of each item
IdAndTitle(items) ==
    [i \in 1..Len(items) |-> [id |-> items[i].id, title |-> items[i].title]]

\* C28: in every adapter an item with neither link nor title produces no
\* NewsItem and the batch goes on; every NewsItem has a non-empty title
\* ('Untitled' when the item had none) and a non-empty id: the native
\* identifier if present, else the link, else a hash of the title.
C28_ItemNormalization ==
    (parseCall.pc = "returned" /\ Understood) =>
        /\ parseCall.result.success
        /\ IdAndTitle(parseCall.result.items) = Concat([i \in 1..Len(RawItems) |-> Normalized(RawItems[i])])
        /\ \A i \in 1..Len(parseCall.result.items) :
              /\ parseCall.result.items[i].title # << >>
              /\ parseCall.result.items[i].id # << >>

\* the object holds a non-empty string under title, url or link
Described(obj) ==
    /\ obj.t = "object"
    /\ \E key \in {"title", "url", "link"} :
          Get(obj, key).t = "string" /\ Get(obj, key).s # << >>

\* C29: for a JSON array of objects that each hold a title or a url/link,
\* JSONAdapter.parse returns success with exactly one NewsItem per object,
\* in input order, each with a non-empty id.
C29_OneItemPerObject ==
    LET elems == parseCall.content.json.elems
        items == parseCall.result.items
    IN  ( /\ parseCall.pc = "returned"
          /\ parseCall.content.root = "array"
          /\ \A i \in 1..Len(elems) : Described(elems[i]) ) =>
            /\ parseCall.result.success
            /\ Len(items) = Len(elems)
            /\ \A i \in 1..Len(elems) :
                  /\ items[i].id # << >>
                  /\ << items[i] >> = mapToNewsItem(elems[i])

\* C30: when the JSON root is an object that holds an array under a
\* recognized key (the first of arrayKeys that does), the items are exactly
\* those of that array's elements and the remaining fields of the wrapper
\* are the metadata, not an item; a root object without such a key is a
\* collection of one element.
C30_WrappedArray ==
    LET parsed == parseCall.content.json
        found == FindArrayKey(parsed, arrayKeys)
    IN  (parseCall.pc = "returned" /\ parseCall.content.root = "object") =>
            /\ parseCall.result.success
            /\ IF found # << >>
               THEN /\ parseCall.result.items =
                           Concat([i \in 1..Len(found[1].items) |->
                                      mapToNewsItem(found[1].items[i])])
                    /\ parseCall.result.metadata.title =
                           JSONAdapter_getString(found[1].metadata, << "title", "name" >>)
               ELSE parseCall.result.items = mapToNewsItem(parsed)

----------------------------------------------------------------------------
(***************************************************************************)
(* Content-type detection.                                                 *)
(***************************************************************************)

\* the type the leading text of the content gives
Sniffed(content) ==
    CASE Opening(content) \in {"<?xml", "<rss", "<feed"} ->
           IF "<feed" \in Tags(content) THEN ATOM ELSE RSS
      [] Opening(content) \in {"[", "{"} -> JSON
      [] Opening(content) \in {"<!doctype", "<html"} -> HTML
      [] OTHER -> UNKNOWN

\* the call is for an auto-typed source and its type has been detected
Detected == parseCall.pc # "called" /\ parseCall.source.type = "auto"

\* C31 as stated: a content-type header that holds one of the format
\* markers decides the type by itself, the same for every content;
\* otherwise the leading text of the content decides.
C31_HintDecides ==
    Detected =>
        IF Words(parseCall.contentTypeHeader) # {}
        THEN \A content \in SniffContents :
                 detectContentType(content, parseCall.contentTypeHeader)
                     = parseCall.contentType
        ELSE parseCall.contentType = Sniffed(parseCall.content)

\* C31 amended: a header naming rss or atom gives RSS, else one naming
\* json gives JSON, else one naming html gives HTML, each whatever the
\* content; a header naming only xml gives ATOM when the content includes
\* '<feed' and RSS when it does not, whatever the content starts with;
\* without any of these markers the leading text of the content decides.
C31_DetectContentType ==
    LET words == Words(parseCall.contentTypeHeader)
    IN  Detected =>
            parseCall.contentType =
                CASE words \cap {"rss", "atom"} # {} -> RSS
                  [] words \cap {"rss", "atom"} = {} /\ "json" \in words -> JSON
                  [] words \cap {"rss", "atom", "json"} = {} /\ "html" \in words -> HTML
                  [] words = {"xml"} ->
                       IF "<feed" \in Tags(parseCall.content) THEN ATOM ELSE RSS
                  [] OTHER -> Sniffed(parseCall.content)

\* a JSON object arrives with the content type application/xml and is
\* taken for RSS
C31_Witness ==
    /\ Detected
    /\ parseCall.contentTypeHeader = "application/xml"
    /\ parseCall.content.root = "object"
    /\ parseCall.contentType = RSS

----------------------------------------------------------------------------
(***************************************************************************)
(* The fetch-news tool after `await Promise.allSettled(...)`: the items of *)
(* the fulfilled fetches are aggregated, filtered, sorted and cut.  A news *)
(* item is kept by the fields the handler reads: title, description and    *)
(* content (strings of code units, the last two optional) and publishedAt  *)
(* (optional, the time value in ms of its Date).                           *)
(***************************************************************************)

MaxNewsItems == 2

\* no publishedAt (undefined)
NoDate == [some |-> FALSE, t |-> 0]

\* the Date with time value t
DateOf(t) == [some |-> TRUE, t |-> t]

\* s.toLowerCase() on the letters A..Z
ToLowerCase(s) ==
    [i \in 1..Len(s) |-> IF s[i] >= 65 /\ s[i] <= 90 THEN s[i] + 32 ELSE s[i]]

\* s.includes(sub)
Includes(s, sub) ==
    \E i \in 0..(Len(s) - Len(sub)) : SubSeq(s, i + 1, i + Len(sub)) = sub

\* the filter predicate; x?.toLowerCase().includes(...) is undefined, hence
\* falsy, for a missing field
MatchesFilter(item, lowerFilter) ==
    \/ Includes(ToLowerCase(item.title), lowerFilter)
    \/ item.description.some /\ Includes(ToLowerCase(item.description.s), lowerFilter)
    \/ item.content.some /\ Includes(ToLowerCase(item.content.s), lowerFilter)

\* allItems.filter(...)
SelectItems(allItems, lowerFilter) ==
    SelectSeq(allItems, LAMBDA item : MatchesFilter(item, lowerFilter))

\* a.publishedAt ? new Date(a.publishedAt).getTime() : 0
TimeOf(item) == IF item.publishedAt.some THEN item.publishedAt.t ELSE 0

\* the comparator (a, b) => dateB - dateA
CompareItems(a, b) == TimeOf(b) - TimeOf(a)

\* Array.prototype.sort is stable: an item goes before the first item the
\* comparator places after it
RECURSIVE InsertItem(_, _)
InsertItem(sorted, item) ==
    IF sorted = << >> THEN << item >>
    ELSE IF CompareItems(Head(sorted), item) > 0
         THEN << item >> \o sorted
         ELSE << Head(sorted) >> \o InsertItem(Tail(sorted), item)

RECURSIVE SortItems(_)
SortItems(allItems) ==
    IF allItems = << >> THEN << >>
    ELSE InsertItem(SortItems(SubSeq(allItems, 1, Len(allItems) - 1)),
                    allItems[Len(allItems)])

\* allItems.slice(0, limit)
Slice(allItems, limit) ==
    SubSeq(allItems, 1, IF limit < Len(allItems) THEN limit ELSE Len(allItems))

\* the handler from `// Aggregate` to its return; filter "" stands for a
\* missing or empty filter, which `if (filter)` skips
FetchNewsResponse(allItems, filter, limit) ==
    LET filtered == IF filter # << >>
                    THEN SelectItems(allItems, ToLowerCase(filter))
                    ELSE allItems
    IN  Slice(SortItems(filtered), limit)

\* items the fetches may return
FetchedItems ==
    [title : {<< 97 >>, << 66 >>},
     description : {Absent, Str(<< 98 >>)},
     content : {Absent, Str(<< 65, 98 >>)},
     publishedAt : {NoDate, DateOf(-1), DateOf(1), DateOf(2)}]

\* filters: none, 'A', 'b', 'ab'
Filters == {<< >>, << 65 >>, << 98 >>, << 97, 98 >>}

\* limit: z.number().min(1)
Limits == 1..MaxNewsItems

\* the fetches of a fetch-news call have settled with these items
InitFetchNews ==
    /\ InitServer(FALSE)
    /\ fetchCall = NoFetchCall
    /\ parseCall = NoParseCall
    /\ loader = NoLoader
    /\ \E allItems \in SeqsUpTo(FetchedItems, MaxNewsItems),
          filter \in Filters, limit \in Limits :
         toolCall = [pc |-> "settled", allItems |-> allItems, filter |-> filter,
                     limit |-> limit, slicedItems |-> << >>]

\* the handler returns its response
FetchNewsReturns ==
    /\ toolCall.pc = "settled"
    /\ toolCall' = [toolCall EXCEPT
                      !.pc = "returned",
                      !.slicedItems = FetchNewsResponse(toolCall.allItems,
                                                        toolCall.filter,
                                                        toolCall.limit)]
    /\ RegistryUntouched
    /\ UNCHANGED <<now, started, remote, config, inflight, fetchCall, parseCall, loader>>

SpecFetchNews == InitFetchNews /\ [][FetchNewsReturns]_vars

\* the bag of the elements of a sequence
BagOf(seq) ==
    [x \in {seq[i] : i \in 1..Len(seq)} |-> Cardinality({i \in 1..Len(seq) : seq[i] = x})]

\* a comes strictly before b in the ordering of the contract: by date,
\* newest first, every dated item before every item without date
Before(a, b) ==
    /\ a.publishedAt.some
    /\ b.publishedAt.some => a.publishedAt.t > b.publishedAt.t

\* the items of allItems the filter lets through
Wanted ==
    SelectSeq(toolCall.allItems,
              LAMBDA item : \/ toolCall.filter = << >>
                            \/ MatchesFilter(item, ToLowerCase(toolCall.filter)))

\* C32: the fetch-news result holds only items that contain the filter
\* case-insensitively (all items without filter), is ordered by publishedAt
\* descending with the items without date after all dated ones, and is
\* exactly the first limit items of that ordering.
C32_FilterSortLimit ==
    LET result == toolCall.slicedItems
        left == BagOf(Wanted) (-) BagOf(result)
    IN  toolCall.pc = "returned" =>
            /\ BagOf(result) \sqsubseteq BagOf(Wanted)
            /\ Len(result) = IF toolCall.limit < Len(Wanted)
                             THEN toolCall.limit ELSE Len(Wanted)
            /\ \A i, j \in 1..Len(result) : i < j => ~Before(result[j], result[i])
            /\ \A x \in DOMAIN left : \A i \in 1..Len(result) : ~Before(x, result[i])

\* C33: after start and any sequence of configuration changes the registry
\* is reconciled with the current configuration: every enabled source of
\* the configuration is registered and no source missing from it is.
C33_RegistryReconciled ==
    started =>
        /\ {id \in DOMAIN config : config[id]} \subseteq Registered
        /\ Registered \subseteq DOMAIN config

\* a reload has removed b, which was registered, and kept a enabled
C33_Witness ==
    /\ started
    /\ lastCall.kind = "lifecycle"
    /\ lastCall.before["b"] # "none"
    /\ "b" \notin Registered
    /\ DOMAIN config = {"a"}
    /\ config["a"]
    /\ "a" \in Registered

\* ---------------------------------------------------------------------
\* ConfigLoader by itself: initialize(), loadDefaultConfig(),
\* loadRemoteConfig(), refresh(), the poll timer and stop()
\* ---------------------------------------------------------------------

\* A configuration is the set of its source ids.  DEFAULT_CONFIG has none.
DEFAULT_CONFIG == {}

\* the validated content of ./defaults/feeds.json
LocalDefaults == {"default"}

\* Texts that RSS_FEEDS or a response body can hold.  "{X}" and "{ X }"
\* are two spellings of one value; "{X+}" spells out the schema defaults
\* of X, so it is another value that validates to the same configuration.
ConfigTexts ==
    {"{X}", "{ X }", "{X+}", "{Y}", "{sources:[]}", "[]", "{ invalid", "42", "sources"}

\* String.prototype.trim().startsWith('{') || ...startsWith('[')
StartsWithBrace(text) == text \in {"{X}", "{ X }", "{X+}", "{Y}", "{sources:[]}", "[]", "{ invalid"}

\* JSON.parse / response.json(): the value, or a SyntaxError
JSONParse(text) ==
    CASE text \in {"{X}", "{ X }"} -> [ok |-> TRUE, data |-> "X"]
      [] text = "{X+}"             -> [ok |-> TRUE, data |-> "X+"]
      [] text = "{Y}"              -> [ok |-> TRUE, data |-> "Y"]
      [] text = "{sources:[]}"     -> [ok |-> TRUE, data |-> "sources:[]"]
      [] text = "[]"               -> [ok |-> TRUE, data |-> "[]"]
      [] text = "42"               -> [ok |-> TRUE, data |-> "42"]
      [] OTHER                     -> [ok |-> FALSE, data |-> ""]

\* AppConfigSchema.parse: the configuration, or a ZodError (sources is an
\* array of at least one source)
AppConfigSchema(data) ==
    CASE data \in {"X", "X+"} -> [ok |-> TRUE, config |-> {"a"}]
      [] data = "Y"           -> [ok |-> TRUE, config |-> {"a", "b"}]
      [] OTHER                -> [ok |-> FALSE, config |-> {}]

\* hashConfig: JSON.stringify of the parsed value
hashConfig(data) == data

FeedsUrl == "https://feeds"

\* process.env.RSS_FEEDS; "" stands for unset, which `|| null` treats alike
EnvValues == {"", FeedsUrl} \cup ConfigTexts

\* What fetch(configUrl) gives: a rejection (network error, abort after
\* 10 s, or a configUrl that is no URL), or a response with a status and
\* a body.
Rejected == [kind |-> "rejected", ok |-> FALSE, body |-> ""]
Response(ok, body) == [kind |-> "response", ok |-> ok, body |-> body]

Responses(configUrl) ==
    IF configUrl = FeedsUrl
    THEN {Rejected} \cup {Response(ok, body) : ok \in BOOLEAN, body \in ConfigTexts}
    ELSE {Rejected}

\* loadDefaultConfig(): the validated local file, or the configuration as
\* it was when the file is missing or invalid
loadDefaultConfig(l) ==
    IF l.defaultsValid THEN [l EXCEPT !.config = LocalDefaults] ELSE l

\* the try block of loadRemoteConfig() after response.json() has given
\* rawData
AcceptRawData(l, data) ==
    IF hashConfig(data) = l.lastConfigHash
    THEN [l EXCEPT !.returned = "true"]
    ELSE IF ~AppConfigSchema(data).ok
    THEN [l EXCEPT !.returned = "false"]
    ELSE [l EXCEPT !.config = AppConfigSchema(data).config,
                   !.lastConfigHash = hashConfig(data),
                   !.emitted = << [previous |-> l.config,
                                   current |-> AppConfigSchema(data).config] >>,
                   !.returned = "true"]

\* a reload that takes every parsed body without validating it
loadRemoteConfig_unvalidated(l, response) ==
    IF l.configUrl = ""
    THEN [l EXCEPT !.returned = "false"]
    ELSE IF response.kind = "rejected" \/ ~response.ok \/ ~JSONParse(response.body).ok
    THEN [l EXCEPT !.returned = "false"]
    ELSE [l EXCEPT !.config = AppConfigSchema(JSONParse(response.body).data).config,
                   !.lastConfigHash = hashConfig(JSONParse(response.body).data),
                   !.emitted = << [previous |-> l.config,
                                   current |-> AppConfigSchema(JSONParse(response.body).data).config] >>,
                   !.returned = "true"]

\* loadRemoteConfig(): everything that throws is caught and gives false
loadRemoteConfig(l, response) ==
    IF l.configUrl = ""
    THEN [l EXCEPT !.returned = "false"]
    ELSE IF response.kind = "rejected" \/ ~response.ok \/ ~JSONParse(response.body).ok
    THEN [l EXCEPT !.returned = "false"]
    ELSE AcceptRawData(l, JSONParse(response.body).data)

\* initialize() with the response its one fetch gets, if it fetches
initialize(l, response) ==
    IF l.configUrl = ""
    THEN loadDefaultConfig(l)
    ELSE IF StartsWithBrace(l.configUrl)
    THEN IF JSONParse(l.configUrl).ok /\ AppConfigSchema(JSONParse(l.configUrl).data).ok
         THEN [l EXCEPT !.config = AppConfigSchema(JSONParse(l.configUrl).data).config]
         ELSE loadDefaultConfig(l)
    ELSE [loadRemoteConfig(l, response) EXCEPT !.polling = TRUE]

\* refresh(): a reload in URL mode, a no-op returning true otherwise
refresh(l, response) ==
    IF l.configUrl = "" \/ StartsWithBrace(l.configUrl)
    THEN [l EXCEPT !.returned = "true"]
    ELSE loadRemoteConfig(l, response)

\* the loader as a call finds it: the outcome fields are those of this call
LoaderCalled(l, call, response) ==
    [l EXCEPT !.call = call, !.response = response, !.previous = l.config,
              !.previousHash = l.lastConfigHash,
              !.returned = "none", !.emitted = << >>]

\* new ConfigLoader()
NewConfigLoader(env, defaultsValid) ==
    [pc |-> "constructed", configUrl |-> env, defaultsValid |-> defaultsValid,
     config |-> DEFAULT_CONFIG, lastConfigHash |-> "", polling |-> FALSE,
     call |-> "constructor", response |-> Rejected, previous |-> DEFAULT_CONFIG,
     previousHash |-> "", returned |-> "none", emitted |-> << >>]

LoaderFrame ==
    /\ RegistryUntouched
    /\ UNCHANGED <<now, started, remote, config, inflight, fetchCall, parseCall, toolCall>>

Initialize ==
    /\ loader.pc = "constructed"
    /\ \E response \in Responses(loader.configUrl) :
          loader' = [initialize(LoaderCalled(loader, "initialize", response), response)
                        EXCEPT !.pc = "initialized"]
    /\ LoaderFrame

\* the setInterval callback of startPolling()
PollTimerFires ==
    /\ loader.pc = "initialized"
    /\ loader.polling
    /\ \E response \in Responses(loader.configUrl) :
          loader' = loadRemoteConfig(LoaderCalled(loader, "loadRemoteConfig", response), response)
    /\ LoaderFrame

Refresh ==
    /\ loader.pc = "initialized"
    /\ \E response \in Responses(loader.configUrl) :
          loader' = refresh(LoaderCalled(loader, "refresh", response), response)
    /\ LoaderFrame

\* stop()
StopLoader ==
    /\ loader.pc = "initialized"
    /\ loader.polling
    /\ loader' = [LoaderCalled(loader, "stop", Rejected) EXCEPT !.polling = FALSE]
    /\ LoaderFrame

NextLoader == Initialize \/ PollTimerFires \/ Refresh \/ StopLoader

InitLoader ==
    /\ InitServer(TRUE)
    /\ fetchCall = NoFetchCall
    /\ parseCall = NoParseCall
    /\ toolCall = NoToolCall
    /\ \E env \in EnvValues, defaultsValid \in BOOLEAN :
          loader = NewConfigLoader(env, defaultsValid)

SpecLoader == InitLoader /\ [][NextLoader]_vars

\* the text is no configuration: it is not JSON or fails the schema
Unusable(text) ==
    ~JSONParse(text).ok \/ ~AppConfigSchema(JSONParse(text).data).ok

\* the call reloaded from the URL with loader.response
Reloaded ==
    /\ loader.call \in {"initialize", "loadRemoteConfig", "refresh"}
    /\ loader.configUrl # ""
    /\ ~StartsWithBrace(loader.configUrl)

\* the reload failed: network error, non-success status, or a body that
\* is not JSON or fails validation
ReloadFailed ==
    \/ loader.response.kind = "rejected"
    \/ ~loader.response.ok
    \/ Unusable(loader.response.body)

\* the reload got the payload that was last accepted
SamePayload ==
    /\ loader.response.kind = "response"
    /\ loader.response.ok
    /\ JSONParse(loader.response.body).ok
    /\ hashConfig(JSONParse(loader.response.body).data) = loader.previousHash

\* C34: a configuration input that cannot be parsed or validated never
\* becomes the active configuration and every call returns: initialize()
\* with JSON in RSS_FEEDS that is invalid or fails the schema ends with
\* what loadDefaultConfig() gives; a failed remote reload returns false,
\* keeps configuration and hash and emits no config:changed; a payload
\* identical to the last accepted one changes and emits nothing.
C34_InvalidInputRejected ==
    loader.pc = "initialized" =>
        /\ (loader.call = "initialize" /\ StartsWithBrace(loader.configUrl)
              /\ Unusable(loader.configUrl))
             => loader.config = IF loader.defaultsValid THEN LocalDefaults
                                ELSE DEFAULT_CONFIG
        /\ (Reloaded /\ ReloadFailed)
             => /\ loader.returned = "false"
                /\ loader.config = loader.previous
                /\ loader.lastConfigHash = loader.previousHash
                /\ loader.emitted = << >>
        /\ (Reloaded /\ SamePayload)
             => /\ loader.returned = "true"
                /\ loader.config = loader.previous
                /\ loader.emitted = << >>
        /\ Reloaded => loader.returned \in {"true", "false"}
        /\ loader.config # loader.previous
             => \/ loader.config = LocalDefaults
                \/ /\ loader.call = "initialize"
                   /\ ~Unusable(loader.configUrl)
                   /\ loader.config = AppConfigSchema(JSONParse(loader.configUrl).data).config
                \/ /\ Reloaded
                   /\ ~ReloadFailed
                   /\ loader.config = AppConfigSchema(JSONParse(loader.response.body).data).config

\* the poll timer got a body failing the schema after a configuration
\* had been accepted from the URL
C34_Witness ==
    /\ loader.pc = "initialized"
    /\ loader.call = "loadRemoteConfig"
    /\ loader.response = Response(TRUE, "{sources:[]}")
    /\ loader.previous = {"a"}
    /\ loader.previousHash = "X"
    /\ loader.returned = "false"

\* C35: a breaker leaves HALF_OPEN for CLOSED only after at least
\* successThreshold successes recorded in a row since it entered
\* HALF_OPEN; successes recorded earlier, such as late results that came
\* in while it was OPEN, do not count.
C35_ClosesOnlyAfterTrials ==
    \A id \in DOMAIN lastCall.before \cap Registered :
        (/\ lastCall.kind = "recordSuccess"
         /\ lastCall.before[id] = HALF_OPEN
         /\ circuitBreakers[id].state = CLOSED)
            => halfOpenSuccesses[id] >= successThreshold

\* the step from breaker b to breaker b1, made by a call of the given kind
\* at time t, is one of the edges of the state machine
AllowedEdge(b, b1, kind, t) ==
    \/ /\ b.state = CLOSED /\ b1.state = OPEN
       /\ kind = "recordFailure"
       /\ b.failureCount + 1 >= failureThreshold
    \/ /\ b.state = OPEN /\ b1.state = HALF_OPEN
       /\ kind = "canRequest"
       /\ b.nextAttemptTime # Null
       /\ t >= b.nextAttemptTime
    \/ /\ b.state = HALF_OPEN /\ b1.state = OPEN
       /\ kind = "recordFailure"
    \/ /\ b.state = HALF_OPEN /\ b1.state = CLOSED
       /\ kind = "recordSuccess"
       /\ b.successCount + 1 >= successThreshold
    \/ /\ b1.state = CLOSED
       /\ kind = "resetSource"

\* C36: the state of a breaker changes only along CLOSED->OPEN
\* (recordFailure reaching failureThreshold), OPEN->HALF_OPEN (canExecute
\* once the recovery time has elapsed, never by the passing of time),
\* HALF_OPEN->OPEN (recordFailure), HALF_OPEN->CLOSED (recordSuccess
\* reaching successThreshold) and any state->CLOSED (reset); recordSuccess
\* leaves an OPEN breaker OPEN with its nextAttemptTime, recordFailure
\* never closes a breaker, and nothing moves CLOSED to HALF_OPEN.
C36_StateEdges ==
    [][\A id \in Registered \cap DOMAIN circuitBreakers' :
          /\ circuitBreakers'[id].state # circuitBreakers[id].state
               => AllowedEdge(circuitBreakers[id], circuitBreakers'[id],
                              lastCall'.kind, now)
          /\ now' # now => circuitBreakers'[id] = circuitBreakers[id]
          /\ (lastCall'.kind = "recordSuccess" /\ circuitBreakers[id].state = OPEN)
               => /\ circuitBreakers'[id].state = OPEN
                  /\ circuitBreakers'[id].nextAttemptTime =
                         circuitBreakers[id].nextAttemptTime
          /\ (lastCall'.kind = "recordFailure" /\ circuitBreakers[id].state # CLOSED)
               => circuitBreakers'[id].state # CLOSED
          /\ circuitBreakers[id].state = CLOSED
               => circuitBreakers'[id].state # HALF_OPEN]_vars

\* a late success has been recorded on an OPEN breaker, which stays OPEN
\* with its success counted
C36_Witness ==
    \E id \in DOMAIN lastCall.before \cap Registered :
        /\ lastCall.kind = "recordSuccess"
        /\ lastCall.before[id] = OPEN
        /\ circuitBreakers[id].state = OPEN
        /\ circuitBreakers[id].successCount = 1
        /\ circuitBreakers[id].nextAttemptTime > now

\* the ids for which the step makes a call of the given kind on a breaker
\* that is registered before and after it
CalledOn(kind, before, after, call) ==
    IF call.kind = kind
    THEN DOMAIN call.before \cap DOMAIN before \cap DOMAIN after
    ELSE {}

\* C37: recordSuccess adds one to successCount and zeroes failureCount
\* whatever the state (the close it may trigger from HALF_OPEN then zeroes
\* both), recordFailure adds one to failureCount and zeroes successCount
\* whatever the state, entering OPEN included; so at most one of the two
\* counters is non-zero.
C37_CounterUpdates ==
    [][/\ \A id \in CalledOn("recordSuccess", circuitBreakers, circuitBreakers', lastCall') :
            /\ circuitBreakers'[id].failureCount = 0
            /\ \/ circuitBreakers'[id].successCount = circuitBreakers[id].successCount + 1
               \/ /\ circuitBreakers[id].state = HALF_OPEN
                  /\ circuitBreakers[id].successCount + 1 >= successThreshold
                  /\ circuitBreakers'[id].state = CLOSED
                  /\ circuitBreakers'[id].successCount = 0
       /\ \A id \in CalledOn("recordFailure", circuitBreakers, circuitBreakers', lastCall') :
            /\ circuitBreakers'[id].failureCount = circuitBreakers[id].failureCount + 1
            /\ circuitBreakers'[id].successCount = 0
       /\ \A id \in DOMAIN circuitBreakers' :
            \/ circuitBreakers'[id].failureCount = 0
            \/ circuitBreakers'[id].successCount = 0]_vars

\* a failure after a success on a CLOSED breaker has opened the circuit:
\* the streak that opened it is still counted and the successes are not
C37_Witness ==
    \E id \in DOMAIN lastCall.before \cap Registered :
        /\ lastCall.kind = "recordFailure"
        /\ lastCall.before[id] = CLOSED
        /\ circuitBreakers[id].state = OPEN
        /\ circuitBreakers[id].failureCount = failureThreshold
        /\ circuitBreakers[id].successCount = 0
        /\ sourceStats[id].totalRequests > sourceStats[id].totalFailures

\* C38: a CLOSED breaker has fewer than failureThreshold failures counted,
\* after any sequence of canRequest, recordSuccess, recordFailure and
\* resetSource calls.
C38_ClosedBelowThreshold ==
    \A id \in Registered :
        circuitBreakers[id].state = CLOSED
            => circuitBreakers[id].failureCount < failureThreshold

\* a CLOSED breaker one failure short of opening, with an earlier streak
\* of failures behind it
C38_Witness ==
    \E id \in Registered :
        /\ lastCall.kind = "recordFailure"
        /\ circuitBreakers[id].state = CLOSED
        /\ circuitBreakers[id].failureCount = failureThreshold - 1
        /\ sourceStats[id].totalFailures > failureThreshold

\* C39: whenever a registered breaker moves into CLOSED, by resetSource or
\* by the recordSuccess that ends its recovery, the step emits
\* circuit:closed for that source.
C39_ClosedIsAnnounced ==
    \A id \in DOMAIN lastCall.before \cap Registered :
        (/\ lastCall.before[id] \in {OPEN, HALF_OPEN}
         /\ circuitBreakers[id].state = CLOSED)
            => \E i \in 1..Len(emitted) :
                  /\ emitted[i].type = "circuit:closed"
                  /\ emitted[i].sourceId = id

\* a failed result has no items and a message; only a successful result
\* has items
FailureExplained(result) ==
    /\ ~result.success => /\ result.items = << >>
                          /\ result.error \notin {NullString, ""}
    /\ result.items # << >> => result.success

\* C40: every ParseResult with success = false carries an empty item list
\* and an error message, whether the fetch failed, no adapter was found or
\* an adapter could not make out the structure; items come only with
\* success = true.
C40_FailureCarriesError ==
    /\ fetchCall.pc = "returned" => FailureExplained(fetchCall.result)
    /\ parseCall.pc = "returned" => FailureExplained(parseCall.result)

\* the fetch succeeded and the adapter found no feed structure in the body
C40_Witness ==
    /\ fetchCall.pc = "returned"
    /\ ~fetchCall.result.success
    /\ fetchCall.result.error = "Unable to detect RSS/Atom structure"
    /\ fetchCall.result.items = << >>

====
